---------------------------- MODULE Spec2Model ----------------------------
(***************************************************************************)
(* The presence-and-room session manager and message fan-out of the        *)
(* socket server (src/server.ts).  One action per inbound event handler;   *)
(* a handler that awaits the user store or the message store is split at   *)
(* the await into a start step and its resumptions, so that other events   *)
(* interleave exactly where the single-threaded runtime lets them.         *)
(***************************************************************************)
EXTENDS Naturals, Integers, Sequences, FiniteSets, TLC

(***************************************************************************)
(* Bounds of the model                                                     *)
(***************************************************************************)
\* inbound events (handler invocations, disconnects included) per behaviour
MaxEvents == 4
\* handlers suspended at an await at the same time
MaxPending == 2
\* messages ever created in the message store
MaxMsgs == 2
MaxTextLen == 103

(***************************************************************************)
(* Domains of the inputs                                                   *)
(***************************************************************************)
Sockets == {"s1", "s2", "s3"}
\* socket ids are opaque: connections are opened in this order
SocketOrder == <<"s1", "s2", "s3">>

\* user ids in their lexicographic (UTF-16 code unit) order, the order of
\* Array.prototype.sort on strings
SortedIds == <<"u1", "u10", "u11", "u2", "u20", "u21", "u3", "u30", "u4", "u40", "u5">>
AllIds == {SortedIds[i] : i \in 1..Len(SortedIds)}

\* the user store: u1, u2 exist, u3 exists and is banned, nobody else exists
ExistingUsers == {"u1", "u2", "u3"}
BannedUsers == {"u3"}

NoUser == "<none>"
NoRoom == "<none>"

\* <<firstName, lastName>> pairs a client may send
Names == {<<"Al", "Fa">>, <<"Bo", "Fa">>}
PublicRooms == {"lobby", "general"}

VARIABLES
  connected,            \* io.sockets.sockets: the open connections
  closed,               \* connections that have been closed
  sockUserId,           \* socket.userId   (NoUser: undefined)
  sockName,             \* <<socket.firstName, socket.lastName>>
  activeRooms,          \* socket.activeRooms, in insertion order
  rooms,                \* socket.rooms: the transport's room membership
  users,                \* Map socket.id -> {userId, firstName, lastName, currentRoom}
  usersInPublicRooms,   \* Map room -> Set of full names
  usersInPrivateRooms,  \* Map private room id -> Set of user ids
  userSockets,          \* Map userId -> Set of socket ids, in insertion order
  typingUsers,          \* Map room -> Set of full names
  globalOnlineUsers,    \* Map userId -> full name
  messages,             \* the message store: Map _id -> document
  created,              \* number of documents ever created (next _id)
  pending,              \* handlers suspended at an await
  out,                  \* the events emitted by the last step, in order
  last,                 \* the last step: handler, socket, arguments, locals
  nEvents               \* inbound events so far

vars == <<connected, closed, sockUserId, sockName, activeRooms, rooms, users,
          usersInPublicRooms, usersInPrivateRooms, userSockets, typingUsers,
          globalOnlineUsers, messages, created, pending, out, last, nEvents>>

sockVars == <<sockUserId, sockName, activeRooms, rooms>>
mapVars == <<users, usersInPublicRooms, usersInPrivateRooms, userSockets,
             typingUsers, globalOnlineUsers>>
storeVars == <<messages, created>>

(***************************************************************************)
(* Maps and insertion-ordered sets                                         *)
(***************************************************************************)
Has(m, k) == k \in DOMAIN m
Put(m, k, v) == [x \in (DOMAIN m) \cup {k} |-> IF x = k THEN v ELSE m[x]]
Del(m, k) == [x \in (DOMAIN m) \ {k} |-> m[x]]
EmptyMap == [x \in {} |-> {}]

Range(q) == {q[i] : i \in 1..Len(q)}
SeqAdd(q, x) == IF x \in Range(q) THEN q ELSE Append(q, x)
SeqDel(q, x) == SelectSeq(q, LAMBDA y : y # x)

\* m.get(k).add(x) after "if (!m.has(k)) m.set(k, new Set())"
SetAdd(m, k, x) == Put(m, k, (IF Has(m, k) THEN m[k] ELSE {}) \cup {x})
SetClear(m, k, x) == IF Has(m, k) THEN Put(m, k, {}) ELSE m

\* m.get(k).delete(x) guarded by m.has(k)
SetDel(m, k, x) == IF Has(m, k) THEN Put(m, k, m[k] \ {x}) ELSE m

(***************************************************************************)
(* Pure helpers of the server                                              *)
(***************************************************************************)
\* `${firstName} ${lastName}`
FullName(n) == n[1] \o " " \o n[2]

Rank(u) == CHOOSE i \in 1..Len(SortedIds) : SortedIds[i] = u

\* [userId1, userId2].sort()
SortPair(a, b) == IF Rank(b) < Rank(a) THEN <<b, a>> ELSE <<a, b>>

UnsortedPrivateRoomId(userId1, userId2) == "private_" \o userId1 \o "_" \o userId2

getPrivateRoomId(userId1, userId2) ==
  LET sortedIds == SortPair(userId1, userId2)
  IN  "private_" \o sortedIds[1] \o "_" \o sortedIds[2]

\* User.findById(userId): the document, or null
UserExists(u) == u \in ExistingUsers

NobodyBanned(u) == FALSE

\* userDoc.banned
UserBanned(u) == u \in BannedUsers

(***************************************************************************)
(* Emitting: an event is recorded with the connections it is written to    *)
(***************************************************************************)
Event(ev, to, room, data) == [ev |-> ev, to |-> to, room |-> room, data |-> data]

\* the open connections in a transport room
InRoom(rms, conn, r) == {t \in conn : r \in rms[t]}

ToEveryone(conn, s) == conn

\* socket.emit(...)
ToSocket(conn, s) == {s} \cap conn
\* io.to(room).emit(...)
ToRoom(rms, conn, r) == InRoom(rms, conn, r)
ToRoomWithSender(rms, conn, r, s) == InRoom(rms, conn, r)

\* socket.to(room).emit(...)
ToRoomExcept(rms, conn, r, s) == InRoom(rms, conn, r) \ {s}

NoLast == [op |-> "none"]

Init ==
  /\ connected = {}
  /\ closed = {}
  /\ sockUserId = [s \in Sockets |-> NoUser]
  /\ sockName = [s \in Sockets |-> <<"undefined", "undefined">>]
  /\ activeRooms = [s \in Sockets |-> <<>>]
  /\ rooms = [s \in Sockets |-> {}]
  /\ users = EmptyMap
  /\ usersInPublicRooms = EmptyMap
  /\ usersInPrivateRooms = EmptyMap
  /\ userSockets = EmptyMap
  /\ typingUsers = EmptyMap
  /\ globalOnlineUsers = EmptyMap
  /\ messages = EmptyMap
  /\ created = 0
  /\ pending = {}
  /\ out = <<>>
  /\ last = NoLast
  /\ nEvents = 0

(***************************************************************************)
(* io.on('connection'): a new connection with an empty activeRooms         *)
(***************************************************************************)
Connect(s) ==
  /\ s \notin connected \cup closed
  /\ \A i \in 1..Len(SocketOrder) :
        SocketOrder[i] = s => \A j \in 1..(i-1) : SocketOrder[j] \in connected \cup closed
  /\ connected' = connected \cup {s}
  /\ activeRooms' = [activeRooms EXCEPT ![s] = <<>>]
  /\ out' = <<>>
  /\ last' = [op |-> "connect", sock |-> s]
  /\ UNCHANGED <<closed, sockUserId, sockName, rooms, mapVars, storeVars, pending, nEvents>>

\* an inbound event arrives on an open connection
Arrives(s) == s \in connected /\ nEvents < MaxEvents
\* the handler is suspended at an await; at most MaxPending handlers are in flight,
\* and no two of them for the same request of the same connection
Suspend(p) ==
  /\ Cardinality(pending) < MaxPending
  /\ p \notin pending
  /\ pending' = pending \cup {p}

(***************************************************************************)
(* registerUser                                                            *)
(***************************************************************************)
NoIdInvalid(userId) == FALSE

InvalidId(userId) == userId = "" \/ userId = "undefined"
InvalidName(n) == n[1] = "" \/ n[2] = ""

RegisterUserStart(s, userId, name) ==
  /\ Arrives(s)
  /\ nEvents' = nEvents + 1
  /\ IF InvalidId(userId) \/ InvalidName(name)
       THEN /\ out' = <<Event("error", ToSocket(connected, s), NoRoom,
                              "Invalid registration data: userId, firstName, and lastName are required")>>
            /\ last' = [op |-> "registerUser", sock |-> s, userId |-> userId, name |-> name,
                        result |-> "invalid"]
            /\ UNCHANGED pending
       ELSE /\ Suspend([op |-> "registerUser", sock |-> s, pc |-> "findById",
                        userId |-> userId, name |-> name])
            /\ out' = <<>>
            /\ last' = [op |-> "registerUser", sock |-> s, userId |-> userId, name |-> name,
                        result |-> "await"]
  /\ UNCHANGED <<connected, closed, sockVars, mapVars, storeVars>>

AlwaysFirst(roster, userId) == TRUE

\* !globalOnlineUsers.has(userId)
FirstConnection(roster, userId) == ~Has(roster, userId)

\* the body after "await User.findById(userId)"; storeOk = FALSE: the store threw
RegisterUserResume(p, storeOk) ==
  LET s == p.sock
      userId == p.userId
      fullName == FullName(p.name)
      lbl(res) == [op |-> "registerUser", sock |-> s, userId |-> userId, name |-> p.name,
                   result |-> res]
      fail(res, msg) ==
        /\ out' = <<Event("error", ToSocket(connected, s), NoRoom, msg)>>
        /\ last' = lbl(res)
        /\ UNCHANGED <<sockVars, mapVars>>
  IN
  /\ p \in pending /\ p.op = "registerUser"
  /\ pending' = pending \ {p}
  /\ UNCHANGED <<connected, closed, storeVars, nEvents>>
  /\ IF ~storeOk THEN fail("storeError", "Failed to verify user")
     ELSE IF ~UserExists(userId) THEN fail("notFound", "User not found")
     ELSE IF UserBanned(userId) THEN fail("banned", "User is banned")
     ELSE
       LET us == Put(userSockets, userId,
                     SeqAdd(IF Has(userSockets, userId) THEN userSockets[userId] ELSE <<>>, s))
           first == FirstConnection(globalOnlineUsers, userId)
           roster == IF first THEN Put(globalOnlineUsers, userId, fullName)
                     ELSE globalOnlineUsers
       IN
       /\ sockUserId' = [sockUserId EXCEPT ![s] = userId]
       /\ sockName' = [sockName EXCEPT ![s] = p.name]
       /\ userSockets' = us
       /\ globalOnlineUsers' = roster
       /\ out' = (IF first THEN <<Event("onlineUsers", connected, NoRoom, roster)>> ELSE <<>>)
                 \o <<Event("onlineUsers", ToSocket(connected, s), NoRoom, roster)>>
       /\ last' = lbl(IF first THEN "registeredFirst" ELSE "registered")
       /\ UNCHANGED <<activeRooms, rooms, users, usersInPublicRooms, usersInPrivateRooms,
                      typingUsers>>


(***************************************************************************)
(* The transport's rooms: socket.join / socket.leave.  A closed socket has *)
(* left every room; what a later join records for it is read by nobody     *)
(* (emits reach open sockets only), so it is recorded as nothing.          *)
(***************************************************************************)
SioJoin(rms, conn, s, r) == IF s \in conn THEN [rms EXCEPT ![s] = @ \cup {r}] ELSE rms
SioLeave(rms, s, r) == [rms EXCEPT ![s] = @ \ {r}]

(***************************************************************************)
(* joinRoom                                                                *)
(***************************************************************************)
\* users.get(socket.id)?.currentRoom
CurrentRoomOf(us, s) == IF Has(us, s) THEN us[s].currentRoom ELSE NoRoom

NeverSwitches(previousPublicRoom, room) == FALSE

\* previousPublicRoom && previousPublicRoom !== room
SwitchesRoom(previousPublicRoom, room) ==
  previousPublicRoom # NoRoom /\ previousPublicRoom # room

\* the events of leaving the previous room, after socket.leave(previousPublicRoom)
LeaveEvents(rms, conn, prev, fullName, hadMembers, hadTyping) ==
  (IF hadMembers THEN <<Event("userLeft", ToRoom(rms, conn, prev), prev, fullName)>> ELSE <<>>)
  \o (IF hadTyping
        THEN <<Event("userStoppedTyping", ToRoom(rms, conn, prev), prev, fullName)>>
        ELSE <<>>)

JoinedBeforeLeft(leaveEv, joinEv) == joinEv \o leaveEv

\* the leave of the previous room (lines 222-242) comes before the join (lines 244-257)
JoinRoomEvents(leaveEv, joinEv) == leaveEv \o joinEv

\* prev: previousPublicRoom; prevName: the full name of the Session Record before the
\* call; oldName: the name the leave removed; wasTyping: whether that name was in the
\* previous room's typing set
JoinLabel(p, res, prev, prevName, oldName, wasTyping) ==
  [op |-> "joinRoom", sock |-> p.sock, room |-> p.room, userId |-> p.userId,
   name |-> p.name, prev |-> prev, prevName |-> prevName, oldName |-> oldName,
   wasTyping |-> wasTyping, result |-> res]

JoinRoomStart(s, room, userId, name) ==
  LET p == [op |-> "joinRoom", sock |-> s, pc |-> "findById", room |-> room,
            userId |-> userId, name |-> name]
  IN
  /\ Arrives(s)
  /\ nEvents' = nEvents + 1
  /\ IF room = "" \/ InvalidId(userId) \/ InvalidName(name)
       THEN /\ out' = <<Event("error", ToSocket(connected, s), NoRoom,
                              "Invalid join data: room, userId, firstName, and lastName are required")>>
            /\ last' = JoinLabel(p, "invalid", NoRoom, "", "", FALSE)
            /\ UNCHANGED pending
       ELSE /\ Suspend(p)
            /\ out' = <<>>
            /\ last' = JoinLabel(p, "await", NoRoom, "", "", FALSE)
  /\ UNCHANGED <<connected, closed, sockVars, mapVars, storeVars>>

\* from "await User.findById(userId)" (line 196) to the await of line 260
JoinRoomResume(p, storeOk) ==
  LET s == p.sock
      room == p.room
      userId == p.userId
      fullName == FullName(p.name)
      fail(res, msg) ==
        /\ out' = <<Event("error", ToSocket(connected, s), NoRoom, msg)>>
        /\ last' = JoinLabel(p, res, NoRoom, "", "", FALSE)
        /\ pending' = pending \ {p}
        /\ UNCHANGED <<sockVars, mapVars>>
  IN
  /\ p \in pending /\ p.op = "joinRoom" /\ p.pc = "findById"
  /\ UNCHANGED <<connected, closed, storeVars, nEvents>>
  /\ IF ~storeOk THEN fail("storeError", "Failed to verify user")
     ELSE IF ~UserExists(userId) THEN fail("notFound", "User not found")
     ELSE IF UserBanned(userId) THEN fail("banned", "User is banned")
     ELSE
       LET rebind == sockUserId[s] = NoUser \/ sockUserId[s] # userId
           sName == IF rebind THEN p.name ELSE sockName[s]
           us == IF rebind
                   THEN Put(userSockets, userId,
                            SeqAdd(IF Has(userSockets, userId) THEN userSockets[userId]
                                   ELSE <<>>, s))
                   ELSE userSockets
           previousPublicRoom == CurrentRoomOf(users, s)
           switch == SwitchesRoom(previousPublicRoom, room)
           oldName == FullName(sName)
           rooms1 == IF switch THEN SioLeave(rooms, s, previousPublicRoom) ELSE rooms
           active1 == IF switch THEN SeqDel(activeRooms[s], previousPublicRoom)
                      ELSE activeRooms[s]
           hadMembers == switch /\ Has(usersInPublicRooms, previousPublicRoom)
           hadTyping == switch /\ Has(typingUsers, previousPublicRoom)
           pub1 == IF hadMembers THEN SetDel(usersInPublicRooms, previousPublicRoom, oldName)
                   ELSE usersInPublicRooms
           typ1 == IF hadTyping THEN SetDel(typingUsers, previousPublicRoom, oldName)
                   ELSE typingUsers
           leaveEv == IF switch
                        THEN LeaveEvents(rooms1, connected, previousPublicRoom, oldName,
                                         hadMembers, hadTyping)
                        ELSE <<>>
           rooms2 == SioJoin(rooms1, connected, s, room)
           joinEv == <<Event("userJoined", ToRoomExcept(rooms2, connected, room, s), room,
                             fullName)>>
           inRoster == Has(globalOnlineUsers, userId)
           wasTyping == hadTyping /\ oldName \in typingUsers[previousPublicRoom]
           prevName == IF Has(users, s) THEN FullName(users[s].name) ELSE ""
           lbl(res) == JoinLabel(p, res, previousPublicRoom, prevName, oldName, wasTyping)
       IN
       /\ sockUserId' = [sockUserId EXCEPT ![s] = userId]
       /\ sockName' = [sockName EXCEPT ![s] = sName]
       /\ userSockets' = us
       /\ rooms' = rooms2
       /\ activeRooms' = [activeRooms EXCEPT ![s] = SeqAdd(active1, room)]
       /\ users' = Put(users, s, [userId |-> userId, name |-> p.name, currentRoom |-> room])
       /\ usersInPublicRooms' = SetAdd(pub1, room, fullName)
       /\ typingUsers' = typ1
       /\ UNCHANGED <<usersInPrivateRooms, globalOnlineUsers>>
       /\ IF inRoster
            THEN /\ pending' = pending \ {p}
                 /\ out' = JoinRoomEvents(leaveEv, joinEv)
                              \o <<Event("onlineUsers", ToSocket(connected, s), NoRoom,
                                         globalOnlineUsers)>>
                 /\ last' = lbl("joined")
            ELSE /\ [p EXCEPT !.pc = "findById2"] \notin pending
                 /\ pending' = (pending \ {p}) \cup {[p EXCEPT !.pc = "findById2"]}
                 /\ out' = JoinRoomEvents(leaveEv, joinEv)
                 /\ last' = lbl("joinedAwait")

\* from the "await User.findById(userId)" of line 260, which no try guards
JoinRoomRoster(p, storeOk) ==
  LET s == p.sock
      fullName == FullName(p.name)
      roster == Put(globalOnlineUsers, p.userId, fullName)
      lbl(res) == JoinLabel(p, res, NoRoom, "", "", FALSE)
  IN
  /\ p \in pending /\ p.op = "joinRoom" /\ p.pc = "findById2"
  /\ pending' = pending \ {p}
  /\ UNCHANGED <<connected, closed, sockVars, storeVars, nEvents, users, usersInPublicRooms,
                 usersInPrivateRooms, userSockets, typingUsers>>
  /\ IF ~storeOk
       THEN /\ out' = <<>>
            /\ last' = lbl("rosterRejected")
            /\ UNCHANGED globalOnlineUsers
       ELSE /\ globalOnlineUsers' = roster
            /\ out' = <<Event("onlineUsers", connected, NoRoom, roster),
                        Event("onlineUsers", ToSocket(connected, s), NoRoom, roster)>>
            /\ last' = lbl("rosterAdded")

(***************************************************************************)
(* disconnect: the transport has already removed the socket from           *)
(* io.sockets.sockets and from every room when the handler runs            *)
(***************************************************************************)
\* the guard of the second and third pass (line 898)
KnowsUserSockets(userId, us) == userId # NoUser /\ Has(us, userId)

\* userSockets.get(userId).size === 0 after the delete
IsLastSocket(us, userId, s) == Range(us[userId]) \ {s} = {}

SkipsTypingCleanup(typ, room) == FALSE

\* typingUsers.has(currentRoom) in the first pass (line 888)
ClearsTypingOnClose(typ, room) == Has(typ, room)

Disconnect(s) ==
  LET conn == connected \ {s}
      rms == [rooms EXCEPT ![s] = {}]
      \* first pass: the Session Record
      hasRec == Has(users, s)
      rec == users[s]
      recName == FullName(rec.name)
      cur == IF hasRec THEN rec.currentRoom ELSE NoRoom
      hadMembers == cur # NoRoom /\ Has(usersInPublicRooms, cur)
      hadTyping == cur # NoRoom /\ ClearsTypingOnClose(typingUsers, cur)
      pub1 == IF hadMembers THEN SetDel(usersInPublicRooms, cur, recName)
              ELSE usersInPublicRooms
      typ1 == IF hadTyping THEN SetDel(typingUsers, cur, recName) ELSE typingUsers
      ev1 == IF cur # NoRoom
               THEN LeaveEvents(rms, conn, cur, recName, hadMembers, hadTyping)
               ELSE <<>>
      \* second pass: the User Connection Set and the roster
      uid == sockUserId[s]
      known == KnowsUserSockets(uid, userSockets)
      lastOne == known /\ IsLastSocket(userSockets, uid, s)
      us2 == IF ~known THEN userSockets
             ELSE IF lastOne THEN Del(userSockets, uid)
             ELSE Put(userSockets, uid, SeqDel(userSockets[uid], s))
      roster2 == IF lastOne THEN Del(globalOnlineUsers, uid) ELSE globalOnlineUsers
      ev2 == IF lastOne THEN <<Event("onlineUsers", conn, NoRoom, roster2)>> ELSE <<>>
      \* third pass, inside the guard of the second: socket.activeRooms
      sName == FullName(sockName[s])
      mine == IF known THEN Range(activeRooms[s]) ELSE {}
      pub3 == [r \in DOMAIN pub1 |-> IF r \in mine THEN pub1[r] \ {sName} ELSE pub1[r]]
      priv3 == [r \in DOMAIN usersInPrivateRooms |->
                  IF r \in mine THEN usersInPrivateRooms[r] \ {uid}
                  ELSE usersInPrivateRooms[r]]
      typ3 == [r \in DOMAIN typ1 |-> IF r \in mine THEN typ1[r] \ {sName} ELSE typ1[r]]
      typed == IF known THEN SelectSeq(activeRooms[s], LAMBDA r : Has(typ1, r)) ELSE <<>>
      ev3 == [i \in 1..Len(typed) |->
                Event("userStoppedTyping", ToRoom(rms, conn, typed[i]), typed[i], sName)]
  IN
  /\ Arrives(s)
  /\ nEvents' = nEvents + 1
  /\ connected' = conn
  /\ closed' = closed \cup {s}
  /\ rooms' = rms
  /\ users' = Del(users, s)
  /\ usersInPublicRooms' = pub3
  /\ usersInPrivateRooms' = priv3
  /\ typingUsers' = typ3
  /\ userSockets' = us2
  /\ globalOnlineUsers' = roster2
  /\ out' = ev1 \o ev2 \o ev3
  /\ last' = [op |-> "disconnect", sock |-> s, userId |-> uid,
              room |-> cur, name |-> (IF hasRec THEN rec.name ELSE sockName[s]),
              wasTyping |-> (cur # NoRoom /\ Has(typingUsers, cur)
                               /\ recName \in typingUsers[cur]),
              lastOne |-> lastOne]
  /\ UNCHANGED <<sockUserId, sockName, activeRooms, storeVars, pending>>

(***************************************************************************)
(* joinPrivateRoom                                                         *)
(***************************************************************************)
\* the part of the state joinPrivateRoom writes
Membership ==
  [activeRooms |-> activeRooms, rooms |-> rooms, sockUserId |-> sockUserId,
   sockName |-> sockName, usersInPrivateRooms |-> usersInPrivateRooms]

\* lines 314-325: the calling socket joins unless its activeRooms has the room
JoinSelf(m, conn, s, senderId, name, id) ==
  IF id \in Range(m.activeRooms[s]) THEN m
  ELSE [m EXCEPT !.rooms = SioJoin(m.rooms, conn, s, id),
                 !.activeRooms[s] = SeqAdd(@, id),
                 !.sockUserId[s] = senderId,
                 !.sockName[s] = name,
                 !.usersInPrivateRooms = SetAdd(@, id, senderId)]

FansOutOnlyWhenJoined(wasJoined) == wasJoined

\* lines 342-369 run whether or not the calling socket had joined before
FansOut(wasJoined) == TRUE

\* lines 353-366: every open socket of the receiver joins
RECURSIVE FanOut(_, _, _, _, _)
FanOut(m, conn, socketIds, receiverId, id) ==
  IF socketIds = <<>> THEN m
  ELSE LET t == Head(socketIds)
           m1 == IF t \in conn /\ id \notin Range(m.activeRooms[t])
                   THEN [m EXCEPT !.rooms = SioJoin(m.rooms, conn, t, id),
                                  !.activeRooms[t] = SeqAdd(@, id),
                                  !.usersInPrivateRooms = SetAdd(@, id, receiverId)]
                   ELSE m
       IN  FanOut(m1, conn, Tail(socketIds), receiverId, id)

ReceiverSockets(us, receiverId) == IF Has(us, receiverId) THEN us[receiverId] ELSE <<>>

\* lines 311-369 as one: what a call that passed the gate does to the memberships
JoinPrivateEffect(m, conn, us, s, senderId, name, receiverId) ==
  LET id == getPrivateRoomId(senderId, receiverId)
      wasJoined == id \in Range(m.activeRooms[s])
      m1 == JoinSelf(m, conn, s, senderId, name, id)
  IN  IF FansOut(wasJoined)
        THEN FanOut(m1, conn, ReceiverSockets(us, receiverId), receiverId, id)
        ELSE m1

SetMembership(m) ==
  /\ activeRooms' = m.activeRooms
  /\ rooms' = m.rooms
  /\ sockUserId' = m.sockUserId
  /\ sockName' = m.sockName
  /\ usersInPrivateRooms' = m.usersInPrivateRooms

\* wasJoined: the calling socket's activeRooms had the room when the call passed the gate
JprLabel(p, res, wasJoined) ==
  [op |-> "joinPrivateRoom", sock |-> p.sock, senderId |-> p.senderId, name |-> p.name,
   receiverId |-> p.receiverId, named |-> p.named, wasJoined |-> wasJoined,
   result |-> res]

AckToAll(conn, s, ev, room, data) == Event(ev, conn, room, data)

DroppedAck(conn, s, ev, room, data) == Event("none", {}, room, data)

\* callback(...): the acknowledgement goes to the connection that made the request
Ack(conn, s, ev, room, data) == Event(ev, ToSocket(conn, s), room, data)

\* named: receiverFirstName and receiverLastName are both given
JoinPrivateRoomStart(s, senderId, name, receiverId, named) ==
  LET p == [op |-> "joinPrivateRoom", sock |-> s, pc |-> "findById", senderId |-> senderId,
            name |-> name, receiverId |-> receiverId, named |-> named, wasJoined |-> FALSE]
  IN
  /\ Arrives(s)
  /\ nEvents' = nEvents + 1
  /\ IF senderId = "" \/ receiverId = "" \/ InvalidName(name)
       THEN /\ out' = <<Ack(connected, s, "joinPrivateRoomAck", NoRoom,
                            "Invalid private room data")>>
            /\ last' = JprLabel(p, "invalid", FALSE)
            /\ UNCHANGED pending
       ELSE /\ Suspend(p)
            /\ out' = <<>>
            /\ last' = JprLabel(p, "await", FALSE)
  /\ UNCHANGED <<connected, closed, sockVars, mapVars, storeVars>>

\* from the awaits of lines 288-304 to the await of line 347 (or to the end)
JoinPrivateRoomResume(p, storeOk) ==
  LET s == p.sock
      id == getPrivateRoomId(p.senderId, p.receiverId)
      fail(res, msg) ==
        /\ out' = <<Ack(connected, s, "joinPrivateRoomAck", NoRoom, msg)>>
        /\ last' = JprLabel(p, res, FALSE)
        /\ pending' = pending \ {p}
        /\ UNCHANGED <<sockVars, usersInPrivateRooms>>
      wasJoined == id \in Range(activeRooms[s])
      m1 == JoinSelf(Membership, connected, s, p.senderId, p.name, id)
      m2 == JoinPrivateEffect(Membership, connected, userSockets, s, p.senderId, p.name,
                              p.receiverId)
  IN
  /\ p \in pending /\ p.op = "joinPrivateRoom" /\ p.pc = "findById"
  /\ UNCHANGED <<connected, closed, storeVars, nEvents, users, usersInPublicRooms,
                 userSockets, typingUsers, globalOnlineUsers>>
  /\ IF ~storeOk THEN fail("storeError", "Failed to validate users")
     ELSE IF ~UserExists(p.senderId) \/ ~UserExists(p.receiverId)
       THEN fail("notFound", "User not found")
     ELSE IF UserBanned(p.senderId) \/ UserBanned(p.receiverId)
       THEN fail("banned", "One or both users are banned")
     ELSE IF p.named
       THEN /\ SetMembership(m2)
            /\ pending' = pending \ {p}
            /\ out' = <<Ack(connected, s, "joinPrivateRoomAck", id, "Joined private room")>>
            /\ last' = JprLabel(p, "joined", wasJoined)
       ELSE /\ SetMembership(m1)
            /\ [p EXCEPT !.pc = "fetchReceiver", !.wasJoined = wasJoined] \notin pending
            /\ pending' = (pending \ {p})
                             \cup {[p EXCEPT !.pc = "fetchReceiver", !.wasJoined = wasJoined]}
            /\ out' = <<>>
            /\ last' = JprLabel(p, "joinedAwait", wasJoined)

\* after "await fetchReceiverDetails()", which catches what the store throws
JoinPrivateRoomFanOut(p) ==
  LET s == p.sock
      id == getPrivateRoomId(p.senderId, p.receiverId)
      m2 == IF FansOut(p.wasJoined)
              THEN FanOut(Membership, connected, ReceiverSockets(userSockets, p.receiverId),
                          p.receiverId, id)
              ELSE Membership
  IN
  /\ p \in pending /\ p.op = "joinPrivateRoom" /\ p.pc = "fetchReceiver"
  /\ pending' = pending \ {p}
  /\ SetMembership(m2)
  /\ out' = <<Ack(connected, s, "joinPrivateRoomAck", id, "Joined private room")>>
  /\ last' = JprLabel(p, "joined", p.wasJoined)
  /\ UNCHANGED <<connected, closed, storeVars, nEvents, users, usersInPublicRooms,
                 userSockets, typingUsers, globalOnlineUsers>>

(***************************************************************************)
(* leavePrivateRoom                                                        *)
(***************************************************************************)
LeavePrivateRoom(s, senderId, receiverId) ==
  LET id == getPrivateRoomId(senderId, receiverId)
      joined == id \in Range(activeRooms[s])
      lbl(res) == [op |-> "leavePrivateRoom", sock |-> s, senderId |-> senderId,
                   receiverId |-> receiverId, result |-> res]
  IN
  /\ Arrives(s)
  /\ nEvents' = nEvents + 1
  /\ UNCHANGED <<connected, closed, sockUserId, sockName, users, usersInPublicRooms,
                 userSockets, typingUsers, globalOnlineUsers, storeVars, pending>>
  /\ IF senderId = "" \/ receiverId = ""
       THEN /\ out' = <<Event("error", ToSocket(connected, s), NoRoom, "Invalid leave data")>>
            /\ last' = lbl("invalid")
            /\ UNCHANGED <<activeRooms, rooms, usersInPrivateRooms>>
       ELSE /\ out' = <<>>
            /\ last' = lbl(IF joined THEN "left" ELSE "notJoined")
            /\ IF joined
                 THEN /\ rooms' = SioLeave(rooms, s, id)
                      /\ activeRooms' = [activeRooms EXCEPT ![s] = SeqDel(@, id)]
                      /\ usersInPrivateRooms' = SetDel(usersInPrivateRooms, id, senderId)
                 ELSE UNCHANGED <<activeRooms, rooms, usersInPrivateRooms>>

(***************************************************************************)
(* typing / stopTyping                                                     *)
(***************************************************************************)
\* the room the handler works on: args.room, else the private room of
\* senderId and receiverId, else none
TypingRoom(room, senderId, receiverId) ==
  IF room # "" THEN room
  ELSE IF senderId # "" /\ receiverId # "" THEN getPrivateRoomId(senderId, receiverId)
  ELSE NoRoom

TypingClearsRoster(s, room, name, senderId, receiverId) ==
  LET r == TypingRoom(room, senderId, receiverId)
  IN
  /\ Arrives(s)
  /\ nEvents' = nEvents + 1
  /\ typingUsers' = IF r = NoRoom THEN typingUsers ELSE SetAdd(typingUsers, r, FullName(name))
  /\ globalOnlineUsers' = EmptyMap
  /\ out' = <<>>
  /\ last' = [op |-> "typing", sock |-> s, room |-> r, name |-> name]
  /\ UNCHANGED <<connected, closed, sockVars, users, usersInPublicRooms, usersInPrivateRooms,
                 userSockets, storeVars, pending>>

Typing(s, room, name, senderId, receiverId) ==
  LET r == TypingRoom(room, senderId, receiverId)
      fullName == FullName(name)
  IN
  /\ Arrives(s)
  /\ nEvents' = nEvents + 1
  /\ typingUsers' = IF r = NoRoom THEN typingUsers ELSE SetAdd(typingUsers, r, fullName)
  /\ out' = IF r = NoRoom THEN <<>>
            ELSE <<Event("userTyping", ToRoomExcept(rooms, connected, r, s), r, fullName)>>
  /\ last' = [op |-> "typing", sock |-> s, room |-> r, name |-> name]
  /\ UNCHANGED <<connected, closed, sockVars, users, usersInPublicRooms, usersInPrivateRooms,
                 userSockets, globalOnlineUsers, storeVars, pending>>

StopTyping(s, room, name, senderId, receiverId) ==
  LET r == TypingRoom(room, senderId, receiverId)
      fullName == FullName(name)
      known == r # NoRoom /\ Has(typingUsers, r)
  IN
  /\ Arrives(s)
  /\ nEvents' = nEvents + 1
  /\ typingUsers' = IF known THEN SetDel(typingUsers, r, fullName) ELSE typingUsers
  /\ out' = IF known
              THEN <<Event("userStoppedTyping", ToRoomExcept(rooms, connected, r, s), r,
                           fullName)>>
              ELSE <<>>
  /\ last' = [op |-> "stopTyping", sock |-> s, room |-> r, name |-> name]
  /\ UNCHANGED <<connected, closed, sockVars, users, usersInPublicRooms, usersInPrivateRooms,
                 userSockets, globalOnlineUsers, storeVars, pending>>

(***************************************************************************)
(* Messages.  A text is the sequence of its UTF-16 code units; the empty   *)
(* sequence stands for a missing (or empty) text, file url or file name.   *)
(***************************************************************************)
NoText == <<>>
NoMsg == 0

SnippetLimit == 100
SnippetKeep == 97
Ellipsis == <<46, 46, 46>>
\* "[File: ", "Shared File", "]"
FilePrefix == <<91, 70, 105, 108, 101, 58, 32>>
SharedFile == <<83, 104, 97, 114, 101, 100, 32, 70, 105, 108, 101>>
FileSuffix == <<93>>

\* text || `[File: ${fileName || 'Shared File'}]`
NotificationContent(text, fileName) ==
  IF text # NoText THEN text
  ELSE FilePrefix \o (IF fileName # NoText THEN fileName ELSE SharedFile) \o FileSuffix

UncutSnippet(content) == content

\* content.length > 100 ? content.substring(0, 97) + '...' : content
MessageSnippet(content) ==
  IF Len(content) > SnippetLimit THEN SubSeq(content, 1, SnippetKeep) \o Ellipsis
  ELSE content

NeverEmpty(text, fileUrl) == FALSE

\* !text && !fileUrl
IsEmptyMessage(text, fileUrl) == text = NoText /\ fileUrl = NoText

\* !newText || newText.trim() === ''
NeverBlank(text) == FALSE

IsBlank(text) == \A i \in 1..Len(text) : text[i] = 32

\* new Message({...}) of sendMessage and privateMessage
NewMessage(id, chatType, sender, name, receiver, room, text, fileUrl, fileName, replyTo) ==
  [id |-> id, chatType |-> chatType, sender |-> sender, name |-> name,
   receiver |-> receiver, room |-> room, text |-> text, fileUrl |-> fileUrl,
   fileName |-> fileName, replyTo |-> replyTo, isEdited |-> FALSE]

ReplyNeverMissing(msgs, replyTo) == FALSE

\* replyTo && replyTo.id, and Message.findById(replyTo.id) found nothing
ReplyTargetMissing(msgs, replyTo) == replyTo # NoMsg /\ ~Has(msgs, replyTo)

\* a send may start only while the store has room for its document
StoreHasRoom ==
  created + Cardinality({q \in pending : q.op \in {"sendMessage", "privateMessage"}}) < MaxMsgs

(***************************************************************************)
(* sendMessage                                                             *)
(***************************************************************************)
SendLabel(p, res) ==
  [op |-> "sendMessage", sock |-> p.sock, userId |-> p.userId, name |-> p.name,
   room |-> p.room, text |-> p.text, fileUrl |-> p.fileUrl, replyTo |-> p.replyTo,
   result |-> res]

SendMessageStart(s, userId, name, room, text, fileUrl, replyTo) ==
  LET p == [op |-> "sendMessage", sock |-> s, pc |-> "findById", userId |-> userId,
            name |-> name, room |-> room, text |-> text, fileUrl |-> fileUrl,
            replyTo |-> replyTo]
  IN
  /\ Arrives(s)
  /\ nEvents' = nEvents + 1
  /\ IF IsEmptyMessage(text, fileUrl)
       THEN /\ out' = <<Event("messageError", ToSocket(connected, s), NoRoom,
                              "Message cannot be empty.")>>
            /\ last' = SendLabel(p, "empty")
            /\ UNCHANGED pending
       ELSE /\ StoreHasRoom
            /\ Suspend(p)
            /\ out' = <<>>
            /\ last' = SendLabel(p, "await")
  /\ UNCHANGED <<connected, closed, sockVars, mapVars, storeVars>>

\* lines 411-486; userStoreOk, msgStoreOk = FALSE: that store threw
SendMessageResume(p, userStoreOk, msgStoreOk) ==
  LET s == p.sock
      room == p.room
      fullName == FullName(p.name)
      fail(ev, res, msg) ==
        /\ out' = <<Event(ev, ToSocket(connected, s), NoRoom, msg)>>
        /\ last' = SendLabel(p, res)
        /\ UNCHANGED <<typingUsers, storeVars>>
      id == created + 1
      doc == NewMessage(id, "room", p.userId, p.name, NoUser, room, p.text, p.fileUrl,
                        NoText, p.replyTo)
      hadTyping == Has(typingUsers, room)
  IN
  /\ p \in pending /\ p.op = "sendMessage"
  /\ pending' = pending \ {p}
  /\ UNCHANGED <<connected, closed, sockVars, nEvents, users, usersInPublicRooms,
                 usersInPrivateRooms, userSockets, globalOnlineUsers>>
  /\ IF ~userStoreOk THEN fail("error", "storeError", "Failed to verify user")
     ELSE IF ~UserExists(p.userId) THEN fail("error", "notFound", "User not found")
     ELSE IF UserBanned(p.userId) THEN fail("error", "banned", "User is banned")
     ELSE IF ~msgStoreOk THEN fail("messageError", "saveError", "Failed to send message.")
     ELSE IF ReplyTargetMissing(messages, p.replyTo)
       THEN fail("messageError", "replyNotFound", "Replied message not found.")
     ELSE
       /\ messages' = Put(messages, id, doc)
       /\ created' = id
       /\ typingUsers' = IF hadTyping THEN SetDel(typingUsers, room, fullName)
                         ELSE typingUsers
       /\ out' = (IF hadTyping
                    THEN <<Event("userStoppedTyping", ToRoomExcept(rooms, connected, room, s),
                                 room, fullName)>>
                    ELSE <<>>)
                 \o <<Event("receiveMessage", ToRoom(rooms, connected, room), room, doc)>>
       /\ last' = SendLabel(p, "sent")

(***************************************************************************)
(* privateMessage                                                          *)
(***************************************************************************)
PmLabel(p, res) ==
  [op |-> "privateMessage", sock |-> p.sock, senderId |-> p.senderId, name |-> p.name,
   receiverId |-> p.receiverId, text |-> p.text, fileUrl |-> p.fileUrl,
   fileName |-> p.fileName, replyTo |-> p.replyTo, result |-> res]

\* !receiverSocket.rooms.has(privateRoomId), for an open socket of the receiver
NeedsNotification(rms, conn, t, id) == t \in conn /\ id \notin rms[t]

\* lines 631-653: one notification per socket of the receiver outside the room
Notifications(rms, conn, socketIds, id, senderId, snippet, msgId) ==
  LET outside == SelectSeq(socketIds, LAMBDA t : NeedsNotification(rms, conn, t, id))
  IN  [i \in 1..Len(outside) |->
         Event("privateMessageNotification", {outside[i]}, NoRoom,
               [senderId |-> senderId, messageSnippet |-> snippet, fullMessageId |-> msgId])]

PrivateMessageStart(s, senderId, name, receiverId, text, fileUrl, fileName, replyTo) ==
  LET p == [op |-> "privateMessage", sock |-> s, pc |-> "findById", senderId |-> senderId,
            name |-> name, receiverId |-> receiverId, text |-> text, fileUrl |-> fileUrl,
            fileName |-> fileName, replyTo |-> replyTo]
      reject(res, msg) ==
        /\ out' = <<Ack(connected, s, "privateMessageAck", NoRoom, msg)>>
        /\ last' = PmLabel(p, res)
        /\ UNCHANGED pending
  IN
  /\ Arrives(s)
  /\ nEvents' = nEvents + 1
  /\ IF IsEmptyMessage(text, fileUrl)
       THEN reject("empty", "Private message cannot be empty.")
     ELSE IF senderId = "" \/ receiverId = "" \/ InvalidName(name)
       THEN reject("invalid", "Invalid message data.")
     ELSE /\ StoreHasRoom
          /\ Suspend(p)
          /\ out' = <<>>
          /\ last' = PmLabel(p, "await")
  /\ UNCHANGED <<connected, closed, sockVars, mapVars, storeVars>>

\* lines 519-658
PrivateMessageResume(p, userStoreOk, msgStoreOk) ==
  LET s == p.sock
      privateRoomId == getPrivateRoomId(p.senderId, p.receiverId)
      fail(res, msg) ==
        /\ out' = <<Ack(connected, s, "privateMessageAck", NoRoom, msg)>>
        /\ last' = PmLabel(p, res)
        /\ UNCHANGED storeVars
      id == created + 1
      doc == NewMessage(id, "private", p.senderId, p.name, p.receiverId, NoRoom, p.text,
                        p.fileUrl, p.fileName, p.replyTo)
      snippet == MessageSnippet(NotificationContent(p.text, p.fileName))
  IN
  /\ p \in pending /\ p.op = "privateMessage"
  /\ pending' = pending \ {p}
  /\ UNCHANGED <<connected, closed, sockVars, nEvents, mapVars>>
  /\ IF ~userStoreOk THEN fail("storeError", "Failed to verify users")
     ELSE IF ~UserExists(p.senderId) \/ ~UserExists(p.receiverId)
       THEN fail("notFound", "User not found")
     ELSE IF UserBanned(p.senderId) \/ UserBanned(p.receiverId)
       THEN fail("banned", "One or both users are banned")
     ELSE IF ~msgStoreOk THEN fail("saveError", "Failed to send private message.")
     ELSE IF ReplyTargetMissing(messages, p.replyTo)
       THEN fail("replyNotFound", "Replied message not found.")
     ELSE
       /\ messages' = Put(messages, id, doc)
       /\ created' = id
       /\ out' = <<Event("receivePrivateMessage", ToSocket(connected, s), NoRoom, doc)>>
                 \o (IF Has(usersInPrivateRooms, privateRoomId)
                       THEN <<Event("receivePrivateMessage",
                                    ToRoom(rooms, connected, privateRoomId), privateRoomId, doc)>>
                       ELSE <<>>)
                 \o Notifications(rooms, connected, ReceiverSockets(userSockets, p.receiverId),
                                  privateRoomId, p.senderId, snippet, id)
                 \o <<Ack(connected, s, "privateMessageAck", NoRoom, "success")>>
       /\ last' = PmLabel(p, "sent")

(***************************************************************************)
(* getPrivateMessages                                                      *)
(***************************************************************************)
HistoryLabel(p, res) ==
  [op |-> "getPrivateMessages", sock |-> p.sock, user1Id |-> p.user1Id,
   user2Id |-> p.user2Id, result |-> res]

\* Message.find({$or: [...]}): the private messages between the two users, in the
\* order of the store
PrivateHistory(msgs, n, user1Id, user2Id) ==
  LET ids == SelectSeq([i \in 1..n |-> i],
                       LAMBDA i : /\ Has(msgs, i)
                                  /\ msgs[i].chatType = "private"
                                  /\ \/ msgs[i].sender = user1Id /\ msgs[i].receiver = user2Id
                                     \/ msgs[i].sender = user2Id /\ msgs[i].receiver = user1Id)
  IN  [k \in 1..Len(ids) |-> msgs[ids[k]]]

GetPrivateMessagesStart(s, user1Id, user2Id) ==
  LET p == [op |-> "getPrivateMessages", sock |-> s, pc |-> "find", user1Id |-> user1Id,
            user2Id |-> user2Id]
  IN
  /\ Arrives(s)
  /\ nEvents' = nEvents + 1
  /\ IF user1Id = "" \/ user2Id = ""
       THEN /\ out' = <<Event("messageError", ToSocket(connected, s), NoRoom,
                              "Invalid user IDs")>>
            /\ last' = HistoryLabel(p, "invalid")
            /\ UNCHANGED pending
       ELSE /\ Suspend(p)
            /\ out' = <<>>
            /\ last' = HistoryLabel(p, "await")
  /\ UNCHANGED <<connected, closed, sockVars, mapVars, storeVars>>

\* lines 670-711; storeOk = FALSE: Message.find threw
GetPrivateMessagesResume(p, storeOk) ==
  LET s == p.sock
  IN
  /\ p \in pending /\ p.op = "getPrivateMessages"
  /\ pending' = pending \ {p}
  /\ UNCHANGED <<connected, closed, sockVars, nEvents, mapVars, storeVars>>
  /\ IF ~storeOk
       THEN /\ out' = <<Event("messageError", ToSocket(connected, s), NoRoom,
                              "Failed to fetch private messages.")>>
            /\ last' = HistoryLabel(p, "storeError")
       ELSE /\ out' = <<Event("historicalPrivateMessages", ToSocket(connected, s), NoRoom,
                              PrivateHistory(messages, created, p.user1Id, p.user2Id))>>
            /\ last' = HistoryLabel(p, "history")

(***************************************************************************)
(* editMessage / deleteMessage                                             *)
(***************************************************************************)
EditLabel(p, res) ==
  [op |-> "editMessage", sock |-> p.sock, messageId |-> p.messageId, newText |-> p.newText,
   userId |-> p.userId, result |-> res]

AnyoneMayEdit(doc, userId) == TRUE

\* message.sender.toString() !== userId, negated
IsOwner(doc, userId) == doc.sender = userId

\* the room an edit or a delete of the document is broadcast to
AudienceRoom(doc) ==
  IF doc.chatType = "room" /\ doc.room # NoRoom /\ doc.room # "" THEN doc.room
  ELSE IF doc.chatType = "private" THEN getPrivateRoomId(doc.sender, doc.receiver)
  ELSE NoRoom

EditMessageStart(s, messageId, newText, userId) ==
  LET p == [op |-> "editMessage", sock |-> s, pc |-> "findById", messageId |-> messageId,
            newText |-> newText, userId |-> userId]
  IN
  /\ Arrives(s)
  /\ nEvents' = nEvents + 1
  /\ Suspend(p)
  /\ out' = <<>>
  /\ last' = EditLabel(p, "await")
  /\ UNCHANGED <<connected, closed, sockVars, mapVars, storeVars>>

\* lines 718-786; storeOk = FALSE: Message.findById threw; saveOk = FALSE:
\* message.save() threw
EditMessageResume(p, storeOk, saveOk) ==
  LET s == p.sock
      fail(res, msg) ==
        /\ out' = <<Event("messageError", ToSocket(connected, s), NoRoom, msg)>>
        /\ last' = EditLabel(p, res)
        /\ UNCHANGED messages
      doc == messages[p.messageId]
      edited == [doc EXCEPT !.text = p.newText, !.isEdited = TRUE]
      audience == AudienceRoom(edited)
  IN
  /\ p \in pending /\ p.op = "editMessage"
  /\ pending' = pending \ {p}
  /\ UNCHANGED <<connected, closed, sockVars, nEvents, mapVars, created>>
  /\ IF ~storeOk THEN fail("storeError", "Failed to edit message.")
     ELSE IF ~Has(messages, p.messageId) THEN fail("notFound", "Message not found.")
     ELSE IF ~IsOwner(doc, p.userId)
       THEN fail("unauthorized", "Not authorized to edit this message.")
     ELSE IF doc.fileUrl # NoText /\ IsBlank(p.newText)
       THEN fail("fileOnly", "Cannot edit a message that is solely a file.")
     ELSE IF ~saveOk THEN fail("saveError", "Failed to edit message.")
     ELSE
       /\ messages' = Put(messages, p.messageId, edited)
       /\ out' = IF audience = NoRoom THEN <<>>
                 ELSE <<Event("messageEdited", ToRoom(rooms, connected, audience), audience,
                              edited)>>
       /\ last' = EditLabel(p, "edited")

DeleteLabel(p, res) ==
  [op |-> "deleteMessage", sock |-> p.sock, messageId |-> p.messageId, userId |-> p.userId,
   result |-> res]

DeleteMessageStart(s, messageId, userId) ==
  LET p == [op |-> "deleteMessage", sock |-> s, pc |-> "findById", messageId |-> messageId,
            userId |-> userId]
  IN
  /\ Arrives(s)
  /\ nEvents' = nEvents + 1
  /\ Suspend(p)
  /\ out' = <<>>
  /\ last' = DeleteLabel(p, "await")
  /\ UNCHANGED <<connected, closed, sockVars, mapVars, storeVars>>

\* lines 793-821; storeOk = FALSE: Message.findById threw; deleteOk = FALSE:
\* message.deleteOne() threw
DeleteMessageResume(p, storeOk, deleteOk) ==
  LET s == p.sock
      fail(res, msg) ==
        /\ out' = <<Event("messageError", ToSocket(connected, s), NoRoom, msg)>>
        /\ last' = DeleteLabel(p, res)
        /\ UNCHANGED messages
      doc == messages[p.messageId]
      audience == IF doc.chatType = "private" /\ doc.receiver \in {NoUser, ""} THEN NoRoom
                  ELSE AudienceRoom(doc)
  IN
  /\ p \in pending /\ p.op = "deleteMessage"
  /\ pending' = pending \ {p}
  /\ UNCHANGED <<connected, closed, sockVars, nEvents, mapVars, created>>
  /\ IF ~storeOk THEN fail("storeError", "Failed to delete message.")
     ELSE IF ~Has(messages, p.messageId) THEN fail("notFound", "Message not found.")
     ELSE IF ~IsOwner(doc, p.userId)
       THEN fail("unauthorized", "Not authorized to delete this message.")
     ELSE IF ~deleteOk THEN fail("deleteError", "Failed to delete message.")
     ELSE
       /\ messages' = Del(messages, p.messageId)
       /\ out' = IF audience = NoRoom THEN <<>>
                 ELSE <<Event("messageDeleted", ToRoom(rooms, connected, audience), audience,
                              p.messageId)>>
       /\ last' = DeleteLabel(p, "deleted")

(***************************************************************************)
(* Specifications.  Each one lets the handlers it is about run over its    *)
(* own inputs, from the state after construction.                          *)
(***************************************************************************)
\* registerUser, joinRoom and disconnect over the connections of one user
PresenceNext ==
  \/ \E s \in Sockets : Connect(s)
  \/ \E s \in Sockets : RegisterUserStart(s, "u1", <<"Al", "Fa">>)
  \/ \E p \in pending, ok \in BOOLEAN : RegisterUserResume(p, ok)
  \/ \E s \in Sockets, r \in PublicRooms : JoinRoomStart(s, r, "u1", <<"Al", "Fa">>)
  \/ \E p \in pending, ok \in BOOLEAN : JoinRoomResume(p, ok)
  \/ \E p \in pending, ok \in BOOLEAN : JoinRoomRoster(p, ok)
  \/ \E s \in Sockets : Disconnect(s)

PresenceSpec == Init /\ [][PresenceNext]_vars

\* public rooms: joinRoom, typing and disconnect
RoomSockets == {"s1", "s2"}

RoomNext ==
  \/ \E s \in RoomSockets : Connect(s)
  \/ \E s \in RoomSockets, r \in PublicRooms, n \in Names : JoinRoomStart(s, r, "u1", n)
  \/ \E p \in pending, ok \in BOOLEAN : JoinRoomResume(p, ok)
  \/ \E p \in pending, ok \in BOOLEAN : JoinRoomRoster(p, ok)
  \/ \E s \in RoomSockets, r \in PublicRooms, n \in Names : Typing(s, r, n, "", "")
  \/ \E s \in RoomSockets : Disconnect(s)

RoomSpec == Init /\ [][RoomNext]_vars

\* getPrivateRoomId over every pair of ids
PairInit ==
  /\ connected = {} /\ closed = {}
  /\ sockUserId = [s \in Sockets |-> NoUser]
  /\ sockName = [s \in Sockets |-> <<"undefined", "undefined">>]
  /\ activeRooms = [s \in Sockets |-> <<>>]
  /\ rooms = [s \in Sockets |-> {}]
  /\ users = EmptyMap /\ usersInPublicRooms = EmptyMap /\ usersInPrivateRooms = EmptyMap
  /\ userSockets = EmptyMap /\ typingUsers = EmptyMap /\ globalOnlineUsers = EmptyMap
  /\ messages = EmptyMap /\ created = 0 /\ pending = {} /\ out = <<>> /\ nEvents = 0
  /\ last \in {[op |-> "getPrivateRoomId", userId1 |-> a, userId2 |-> b, result |-> NoRoom] :
                 a \in AllIds, b \in AllIds}

ComputePrivateRoomId ==
  /\ last.op = "getPrivateRoomId" /\ last.result = NoRoom
  /\ last' = [last EXCEPT !.result = getPrivateRoomId(last.userId1, last.userId2)]
  /\ UNCHANGED <<connected, closed, sockVars, mapVars, storeVars, pending, out, nEvents>>

PairSpec == PairInit /\ [][ComputePrivateRoomId]_vars

\* sendMessage, privateMessage and editMessage from two connections
MsgSockets == {"s1", "s2"}
Hi == <<104, 105>>
Blank == <<32>>
AFile == <<102>>
Texts == {NoText, Hi}
Files == {NoText, AFile}

MessageNext ==
  \/ \E s \in MsgSockets : Connect(s)
  \/ \E s \in MsgSockets : JoinRoomStart(s, "lobby", "u1", <<"Al", "Fa">>)
  \/ \E p \in pending, ok \in BOOLEAN : JoinRoomResume(p, ok)
  \/ \E p \in pending, ok \in BOOLEAN : JoinRoomRoster(p, ok)
  \/ \E s \in MsgSockets, text \in Texts, fileUrl \in Files :
        SendMessageStart(s, "u1", <<"Al", "Fa">>, "lobby", text, fileUrl, NoMsg)
  \/ \E p \in pending, uok \in BOOLEAN, mok \in BOOLEAN : SendMessageResume(p, uok, mok)
  \/ \E s \in MsgSockets, text \in Texts, fileUrl \in Files :
        PrivateMessageStart(s, "u1", <<"Al", "Fa">>, "u2", text, fileUrl, NoText, NoMsg)
  \/ \E p \in pending, uok \in BOOLEAN, mok \in BOOLEAN : PrivateMessageResume(p, uok, mok)
  \/ \E s \in MsgSockets, id \in 1..MaxMsgs, newText \in {Blank, Hi}, u \in {"u1", "u2"} :
        EditMessageStart(s, id, newText, u)
  \/ \E p \in pending, ok \in BOOLEAN, sok \in BOOLEAN : EditMessageResume(p, ok, sok)

MessageSpec == Init /\ [][MessageNext]_vars

\* private rooms: registerUser, joinPrivateRoom, leavePrivateRoom, privateMessage and
\* disconnect between the users u1 and u2
PrivateSockets == {"s1", "s2"}
Pairs == {<<"u1", "u2">>, <<"u2", "u1">>}

PrivateNext ==
  \/ \E s \in PrivateSockets : Connect(s)
  \/ \E s \in PrivateSockets, u \in {"u1", "u2"} : RegisterUserStart(s, u, <<"Al", "Fa">>)
  \/ \E p \in pending, ok \in BOOLEAN : RegisterUserResume(p, ok)
  \/ \E s \in PrivateSockets, pr \in Pairs, named \in BOOLEAN :
        JoinPrivateRoomStart(s, pr[1], <<"Al", "Fa">>, pr[2], named)
  \/ \E p \in pending, ok \in BOOLEAN : JoinPrivateRoomResume(p, ok)
  \/ \E p \in pending : JoinPrivateRoomFanOut(p)
  \/ \E s \in PrivateSockets, pr \in Pairs : LeavePrivateRoom(s, pr[1], pr[2])
  \/ \E s \in PrivateSockets :
        PrivateMessageStart(s, "u2", <<"Bo", "Fa">>, "u1", Hi, NoText, NoText, NoMsg)
  \/ \E p \in pending, uok \in BOOLEAN, mok \in BOOLEAN : PrivateMessageResume(p, uok, mok)
  \/ \E s \in PrivateSockets : Disconnect(s)

PrivateSpec == Init /\ [][PrivateNext]_vars

\* the notification snippet over texts and file names of every length up to MaxTextLen
Chars(n) == [i \in 1..n |-> 97 + (i % 26)]
FileNameLens == {0, 1, 92, 93, 95}

SnippetInit ==
  /\ connected = {} /\ closed = {}
  /\ sockUserId = [s \in Sockets |-> NoUser]
  /\ sockName = [s \in Sockets |-> <<"undefined", "undefined">>]
  /\ activeRooms = [s \in Sockets |-> <<>>]
  /\ rooms = [s \in Sockets |-> {}]
  /\ users = EmptyMap /\ usersInPublicRooms = EmptyMap /\ usersInPrivateRooms = EmptyMap
  /\ userSockets = EmptyMap /\ typingUsers = EmptyMap /\ globalOnlineUsers = EmptyMap
  /\ messages = EmptyMap /\ created = 0 /\ pending = {} /\ out = <<>> /\ nEvents = 0
  /\ last \in {[op |-> "messageSnippet", text |-> Chars(n), fileName |-> Chars(f),
                content |-> NoText, result |-> NoText, done |-> FALSE] :
                 n \in 0..MaxTextLen, f \in FileNameLens}

ComputeSnippet ==
  /\ last.op = "messageSnippet" /\ ~last.done
  /\ last' = [last EXCEPT !.content = NotificationContent(last.text, last.fileName),
                          !.result = MessageSnippet(NotificationContent(last.text,
                                                                        last.fileName)),
                          !.done = TRUE]
  /\ UNCHANGED <<connected, closed, sockVars, mapVars, storeVars, pending, out, nEvents>>

SnippetSpec == SnippetInit /\ [][ComputeSnippet]_vars

\* the identity gate of the five gated handlers, over a good user (u1), a banned
\* one (u3) and one the store does not know (u4)
GateSockets == {"s1", "s2"}
GateUsers == {"u1", "u3", "u4"}
GatePairs == {<<"u1", "u2">>, <<"u1", "u3">>, <<"u4", "u1">>}

GateNext ==
  \/ \E s \in GateSockets : Connect(s)
  \/ \E s \in GateSockets, u \in GateUsers : RegisterUserStart(s, u, <<"Al", "Fa">>)
  \/ \E p \in pending, ok \in BOOLEAN : RegisterUserResume(p, ok)
  \/ \E s \in GateSockets, u \in GateUsers : JoinRoomStart(s, "lobby", u, <<"Al", "Fa">>)
  \/ \E p \in pending, ok \in BOOLEAN : JoinRoomResume(p, ok)
  \/ \E p \in pending, ok \in BOOLEAN : JoinRoomRoster(p, ok)
  \/ \E s \in GateSockets, pr \in GatePairs :
        JoinPrivateRoomStart(s, pr[1], <<"Al", "Fa">>, pr[2], TRUE)
  \/ \E p \in pending, ok \in BOOLEAN : JoinPrivateRoomResume(p, ok)
  \/ \E s \in GateSockets, u \in GateUsers :
        SendMessageStart(s, u, <<"Al", "Fa">>, "lobby", Hi, NoText, NoMsg)
  \/ \E p \in pending, uok \in BOOLEAN : SendMessageResume(p, uok, TRUE)
  \/ \E s \in GateSockets, pr \in GatePairs :
        PrivateMessageStart(s, pr[1], <<"Al", "Fa">>, pr[2], Hi, NoText, NoText, NoMsg)
  \/ \E p \in pending, uok \in BOOLEAN : PrivateMessageResume(p, uok, TRUE)

GateSpec == Init /\ [][GateNext]_vars

\* typing indicators against sends: u1 ("Al Fa") types and sends in the public room
\* lobby and in the private room with u2
SendSockets == {"s1", "s2"}

SendNext ==
  \/ \E s \in SendSockets : Connect(s)
  \/ \E s \in SendSockets : JoinRoomStart(s, "lobby", "u1", <<"Al", "Fa">>)
  \/ \E p \in pending : JoinRoomResume(p, TRUE)
  \/ \E p \in pending : JoinRoomRoster(p, TRUE)
  \/ \E s \in SendSockets : JoinPrivateRoomStart(s, "u1", <<"Al", "Fa">>, "u2", TRUE)
  \/ \E p \in pending : JoinPrivateRoomResume(p, TRUE)
  \/ \E s \in SendSockets : Typing(s, "lobby", <<"Al", "Fa">>, "", "")
  \/ \E s \in SendSockets : Typing(s, "", <<"Al", "Fa">>, "u1", "u2")
  \/ \E s \in SendSockets :
        SendMessageStart(s, "u1", <<"Al", "Fa">>, "lobby", Hi, NoText, NoMsg)
  \/ \E p \in pending, mok \in BOOLEAN : SendMessageResume(p, TRUE, mok)
  \/ \E s \in SendSockets :
        PrivateMessageStart(s, "u1", <<"Al", "Fa">>, "u2", Hi, NoText, NoText, NoMsg)
  \/ \E p \in pending, mok \in BOOLEAN : PrivateMessageResume(p, TRUE, mok)

SendSpec == Init /\ [][SendNext]_vars

\* the message store under sends, edits and deletes by u1 (and deletes by u2), the
\* writes failing or not, with connections in lobby and in the private room
StoreSockets == {"s1", "s2"}

StoreNext ==
  \/ \E s \in StoreSockets : Connect(s)
  \/ \E s \in StoreSockets : JoinRoomStart(s, "lobby", "u1", <<"Al", "Fa">>)
  \/ \E p \in pending : JoinRoomResume(p, TRUE)
  \/ \E p \in pending : JoinRoomRoster(p, TRUE)
  \/ \E s \in StoreSockets : JoinPrivateRoomStart(s, "u1", <<"Al", "Fa">>, "u2", TRUE)
  \/ \E p \in pending : JoinPrivateRoomResume(p, TRUE)
  \/ \E s \in StoreSockets : Typing(s, "lobby", <<"Al", "Fa">>, "", "")
  \/ \E s \in StoreSockets :
        SendMessageStart(s, "u1", <<"Al", "Fa">>, "lobby", Hi, NoText, NoMsg)
  \/ \E p \in pending, mok \in BOOLEAN : SendMessageResume(p, TRUE, mok)
  \/ \E s \in StoreSockets :
        PrivateMessageStart(s, "u1", <<"Al", "Fa">>, "u2", Hi, NoText, NoText, NoMsg)
  \/ \E p \in pending, mok \in BOOLEAN : PrivateMessageResume(p, TRUE, mok)
  \/ \E s \in StoreSockets, id \in 1..MaxMsgs : EditMessageStart(s, id, Hi, "u1")
  \/ \E p \in pending, sok \in BOOLEAN : EditMessageResume(p, TRUE, sok)
  \/ \E s \in StoreSockets, id \in 1..MaxMsgs, u \in {"u1", "u2"} :
        DeleteMessageStart(s, id, u)
  \/ \E p \in pending, dok \in BOOLEAN : DeleteMessageResume(p, TRUE, dok)

StoreSpec == Init /\ [][StoreNext]_vars

\* requests the handlers reject (missing arguments, empty messages, banned or
\* unknown users, edits and deletes by another user, unknown messages) next to
\* requests they accept, the stores answering
RejectSockets == {"s1", "s2"}

RejectNext ==
  \/ \E s \in RejectSockets : Connect(s)
  \/ \E s \in RejectSockets, u \in {"", "u3"} : RegisterUserStart(s, u, <<"Al", "Fa">>)
  \/ \E p \in pending : RegisterUserResume(p, TRUE)
  \/ \E s \in RejectSockets, r \in {"", "lobby"} : JoinRoomStart(s, r, "u1", <<"Al", "Fa">>)
  \/ \E p \in pending : JoinRoomResume(p, TRUE)
  \/ \E p \in pending : JoinRoomRoster(p, TRUE)
  \/ \E s \in RejectSockets, u \in {"", "u4"} :
        JoinPrivateRoomStart(s, "u1", <<"Al", "Fa">>, u, TRUE)
  \/ \E p \in pending : JoinPrivateRoomResume(p, TRUE)
  \/ \E s \in RejectSockets : LeavePrivateRoom(s, "", "u2")
  \/ \E s \in RejectSockets, text \in Texts, replyTo \in {NoMsg, MaxMsgs} :
        SendMessageStart(s, "u1", <<"Al", "Fa">>, "lobby", text, NoText, replyTo)
  \/ \E p \in pending : SendMessageResume(p, TRUE, TRUE)
  \/ \E s \in RejectSockets, text \in Texts, u \in {"", "u3"} :
        PrivateMessageStart(s, "u1", <<"Al", "Fa">>, u, text, NoText, NoText, NoMsg)
  \/ \E p \in pending : PrivateMessageResume(p, TRUE, TRUE)
  \/ \E s \in RejectSockets, id \in 1..MaxMsgs : EditMessageStart(s, id, Hi, "u2")
  \/ \E p \in pending : EditMessageResume(p, TRUE, TRUE)
  \/ \E s \in RejectSockets, id \in 1..MaxMsgs : DeleteMessageStart(s, id, "u2")
  \/ \E p \in pending : DeleteMessageResume(p, TRUE, TRUE)
  \/ \E s \in RejectSockets, u \in {"", "u1"} : GetPrivateMessagesStart(s, u, "u2")
  \/ \E p \in pending : GetPrivateMessagesResume(p, TRUE)

RejectSpec == Init /\ [][RejectNext]_vars

\* public and private memberships of the connections of u1: joinRoom between two
\* public rooms, joinPrivateRoom and leavePrivateRoom with u2 and with u1 itself,
\* disconnect
MemberSockets == {"s1", "s2"}

MemberNext ==
  \/ \E s \in MemberSockets : Connect(s)
  \/ \E s \in MemberSockets, r \in PublicRooms : JoinRoomStart(s, r, "u1", <<"Al", "Fa">>)
  \/ \E p \in pending, ok \in BOOLEAN : JoinRoomResume(p, ok)
  \/ \E p \in pending : JoinRoomRoster(p, TRUE)
  \/ \E s \in MemberSockets, receiverId \in {"u1", "u2"} :
        JoinPrivateRoomStart(s, "u1", <<"Al", "Fa">>, receiverId, TRUE)
  \/ \E p \in pending : JoinPrivateRoomResume(p, TRUE)
  \/ \E s \in MemberSockets, receiverId \in {"u1", "u2"} :
        LeavePrivateRoom(s, "u1", receiverId)
  \/ \E s \in MemberSockets : Disconnect(s)

MemberSpec == Init /\ [][MemberNext]_vars

\* presence next to traffic: u1 registers, joins the lobby and disconnects while
\* its connections type, send, edit, delete and read messages
FrameSockets == {"s1", "s2"}

FrameNext ==
  \/ \E s \in FrameSockets : Connect(s)
  \/ \E s \in FrameSockets : RegisterUserStart(s, "u1", <<"Al", "Fa">>)
  \/ \E p \in pending : RegisterUserResume(p, TRUE)
  \/ \E s \in FrameSockets : JoinRoomStart(s, "lobby", "u1", <<"Al", "Fa">>)
  \/ \E p \in pending : JoinRoomResume(p, TRUE)
  \/ \E p \in pending : JoinRoomRoster(p, TRUE)
  \/ \E s \in FrameSockets : Typing(s, "lobby", <<"Al", "Fa">>, "", "")
  \/ \E s \in FrameSockets : StopTyping(s, "lobby", <<"Al", "Fa">>, "", "")
  \/ SendMessageStart("s1", "u1", <<"Al", "Fa">>, "lobby", Hi, NoText, NoMsg)
  \/ \E p \in pending : SendMessageResume(p, TRUE, TRUE)
  \/ PrivateMessageStart("s1", "u1", <<"Al", "Fa">>, "u2", Hi, NoText, NoText, NoMsg)
  \/ \E p \in pending : PrivateMessageResume(p, TRUE, TRUE)
  \/ GetPrivateMessagesStart("s1", "u1", "u2")
  \/ \E p \in pending : GetPrivateMessagesResume(p, TRUE)
  \/ EditMessageStart("s1", 1, Hi, "u1")
  \/ \E p \in pending : EditMessageResume(p, TRUE, TRUE)
  \/ DeleteMessageStart("s1", 1, "u1")
  \/ \E p \in pending : DeleteMessageResume(p, TRUE, TRUE)
  \/ \E s \in FrameSockets : Disconnect(s)

FrameSpec == Init /\ [][FrameNext]_vars

\* replies: room and private messages of u1 that answer no message, a stored
\* message, a deleted one or one that never existed
ReplySockets == {"s1", "s2"}

ReplyNext ==
  \/ \E s \in ReplySockets : Connect(s)
  \/ \E s \in ReplySockets : JoinRoomStart(s, "lobby", "u1", <<"Al", "Fa">>)
  \/ \E p \in pending : JoinRoomResume(p, TRUE)
  \/ \E p \in pending : JoinRoomRoster(p, TRUE)
  \/ \E s \in ReplySockets : JoinPrivateRoomStart(s, "u1", <<"Al", "Fa">>, "u2", TRUE)
  \/ \E p \in pending : JoinPrivateRoomResume(p, TRUE)
  \/ \E s \in ReplySockets, replyTo \in {NoMsg} \cup 1..MaxMsgs :
        SendMessageStart(s, "u1", <<"Al", "Fa">>, "lobby", Hi, NoText, replyTo)
  \/ \E p \in pending, mok \in BOOLEAN : SendMessageResume(p, TRUE, mok)
  \/ \E s \in ReplySockets, replyTo \in {NoMsg} \cup 1..MaxMsgs :
        PrivateMessageStart(s, "u1", <<"Al", "Fa">>, "u2", Hi, NoText, NoText, replyTo)
  \/ \E p \in pending, mok \in BOOLEAN : PrivateMessageResume(p, TRUE, mok)
  \/ \E s \in ReplySockets : DeleteMessageStart(s, 1, "u1")
  \/ \E p \in pending : DeleteMessageResume(p, TRUE, TRUE)

ReplySpec == Init /\ [][ReplyNext]_vars

\* typing indicators: connections of u1 join the lobby and the private room with
\* u2, type and stop typing in either, leave the private room and disconnect
TypingSockets == {"s1", "s2"}

TypingNext ==
  \/ \E s \in TypingSockets : Connect(s)
  \/ \E s \in TypingSockets : JoinRoomStart(s, "lobby", "u1", <<"Al", "Fa">>)
  \/ \E p \in pending : JoinRoomResume(p, TRUE)
  \/ \E p \in pending : JoinRoomRoster(p, TRUE)
  \/ \E s \in TypingSockets : JoinPrivateRoomStart(s, "u1", <<"Al", "Fa">>, "u2", TRUE)
  \/ \E p \in pending : JoinPrivateRoomResume(p, TRUE)
  \/ \E s \in TypingSockets, room \in {"", "lobby"} :
        Typing(s, room, <<"Al", "Fa">>, "u1", "u2")
  \/ \E s \in TypingSockets, room \in {"", "lobby"} :
        StopTyping(s, room, <<"Al", "Fa">>, "u1", "u2")
  \/ \E s \in TypingSockets : LeavePrivateRoom(s, "u1", "u2")
  \/ \E s \in TypingSockets : Disconnect(s)

TypingSpec == Init /\ [][TypingNext]_vars

\* argument validation: each request with and without its required fields, an
\* id that is the string 'undefined', an empty first name, an empty room
InvalidSockets == {"s1", "s2"}
ArgIds == {"", "undefined", "u1"}
ArgNames == {<<"Al", "Fa">>, <<"", "Fa">>}

InvalidNext ==
  \/ \E s \in InvalidSockets : Connect(s)
  \/ \E s \in InvalidSockets, u \in ArgIds, n \in ArgNames : RegisterUserStart(s, u, n)
  \/ \E p \in pending : RegisterUserResume(p, TRUE)
  \/ \E s \in InvalidSockets, r \in {"", "lobby"}, u \in ArgIds, n \in ArgNames :
        JoinRoomStart(s, r, u, n)
  \/ \E p \in pending : JoinRoomResume(p, TRUE)
  \/ \E p \in pending : JoinRoomRoster(p, TRUE)
  \/ \E s \in InvalidSockets, u \in {"", "u1"}, v \in {"", "u2"}, n \in ArgNames :
        JoinPrivateRoomStart(s, u, n, v, TRUE)
  \/ \E p \in pending : JoinPrivateRoomResume(p, TRUE)
  \/ \E s \in InvalidSockets, u \in {"", "u1"}, v \in {"", "u2"} : LeavePrivateRoom(s, u, v)
  \/ \E s \in InvalidSockets, u \in {"", "u1"}, v \in {"", "u2"}, n \in ArgNames :
        PrivateMessageStart(s, u, n, v, Hi, NoText, NoText, NoMsg)
  \/ \E p \in pending : PrivateMessageResume(p, TRUE, TRUE)
  \/ \E s \in InvalidSockets, u \in {"", "u1"}, v \in {"", "u2"} :
        GetPrivateMessagesStart(s, u, v)
  \/ \E p \in pending : GetPrivateMessagesResume(p, TRUE)

InvalidSpec == Init /\ [][InvalidNext]_vars

\* the acknowledged requests, joinPrivateRoom and privateMessage, on every path:
\* missing arguments, banned receiver, failing stores, unknown replied message,
\* success, and the requesting connection closing in between
AckSockets == {"s1", "s2"}

AckJoinResume == \E p \in pending, ok \in BOOLEAN : JoinPrivateRoomResume(p, ok)
AckJoinFanOut == \E p \in pending : JoinPrivateRoomFanOut(p)
AckMessageResume ==
  \E p \in pending, uok \in BOOLEAN, mok \in BOOLEAN : PrivateMessageResume(p, uok, mok)

AckNext ==
  \/ \E s \in AckSockets : Connect(s)
  \/ \E s \in AckSockets, senderId \in {"", "u1"}, receiverId \in {"u2", "u3"},
        named \in BOOLEAN :
        JoinPrivateRoomStart(s, senderId, <<"Al", "Fa">>, receiverId, named)
  \/ AckJoinResume
  \/ AckJoinFanOut
  \/ \E s \in AckSockets, receiverId \in {"", "u2"}, text \in Texts,
        replyTo \in {NoMsg, MaxMsgs} :
        PrivateMessageStart(s, "u1", <<"Al", "Fa">>, receiverId, text, NoText, NoText, replyTo)
  \/ AckMessageResume
  \/ \E s \in AckSockets : Disconnect(s)

AckSpec == Init /\ [][AckNext]_vars

\* a suspended handler is resumed: the store call it awaits returns or throws, and
\* the event loop then runs the continuation
AckFairSpec ==
  /\ AckSpec
  /\ WF_vars(AckJoinResume)
  /\ WF_vars(AckJoinFanOut)
  /\ WF_vars(AckMessageResume)

(***************************************************************************)
(* Properties                                                              *)
(***************************************************************************)
\* C1: whenever no handler is suspended at an await, a user-id is a key of
\* globalOnlineUsers if and only if userSockets holds a non-empty set for it
\* (checked against registerUser, joinRoom and disconnect on the connections
\* of one user-id).
C1_RosterIffConnected ==
  pending = {} =>
    \A u \in ExistingUsers :
      Has(globalOnlineUsers, u) <=> (Has(userSockets, u) /\ userSockets[u] # <<>>)

\* C2: getPrivateRoomId(a, b) = getPrivateRoomId(b, a) for every pair of ids,
\* and computing it leaves every map, socket field and the store as it was.
C2_PrivateRoomIdSymmetric ==
  (last.op = "getPrivateRoomId" /\ last.result # NoRoom) =>
    /\ last.result = getPrivateRoomId(last.userId2, last.userId1)
    /\ users = EmptyMap /\ usersInPublicRooms = EmptyMap /\ usersInPrivateRooms = EmptyMap
    /\ userSockets = EmptyMap /\ typingUsers = EmptyMap /\ globalOnlineUsers = EmptyMap
    /\ messages = EmptyMap /\ created = 0 /\ out = <<>>
    /\ \A s \in Sockets : activeRooms[s] = <<>> /\ rooms[s] = {} /\ sockUserId[s] = NoUser

\* the id of a pair given in descending order has been computed
C2_Witness ==
  /\ last.op = "getPrivateRoomId" /\ last.result # NoRoom
  /\ Rank(last.userId1) > Rank(last.userId2)
  /\ last.result = "private_" \o last.userId2 \o "_" \o last.userId1

\* C3: when a joinRoom moves a connection from public room A to a different room
\* B, what the handler does to A (its name leaves A's member set and A's typing
\* set, userLeft and userStoppedTyping go to A) is done when userJoined goes to B:
\* every event for A precedes the userJoined for B in the order of emission.
C3_LeaveBeforeJoin ==
  (/\ last.op = "joinRoom" /\ last.result \in {"joined", "joinedAwait"}
   /\ last.prev # NoRoom /\ last.prev # last.room) =>
    /\ Has(usersInPublicRooms, last.prev)
    /\ last.oldName \notin usersInPublicRooms[last.prev]
    /\ Has(typingUsers, last.prev) => last.oldName \notin typingUsers[last.prev]
    /\ \E i \in 1..Len(out) :
          out[i] = Event("userLeft", ToRoom(rooms, connected, last.prev), last.prev,
                         last.oldName)
    /\ \E j \in 1..Len(out) : out[j].ev = "userJoined" /\ out[j].room = last.room
    /\ \A i, j \in 1..Len(out) :
          (out[i].room = last.prev /\ out[j].ev = "userJoined") => i < j

\* a typing connection has switched rooms while another connection was in the old room
C3_Witness ==
  /\ last.op = "joinRoom" /\ last.result \in {"joined", "joinedAwait"}
  /\ last.prev # NoRoom /\ last.prev # last.room /\ last.wasTyping
  /\ \E i \in 1..Len(out) : out[i].ev = "userLeft" /\ out[i].to # {}
  /\ \E i \in 1..Len(out) : out[i].ev = "userStoppedTyping" /\ out[i].room = last.prev

\* C4: a sendMessage or privateMessage with neither text nor fileUrl is answered
\* with the empty-message error to the requester alone; nothing is stored, no
\* handler is left waiting for the store and nothing else is emitted.
C4_EmptyMessageRejected ==
  [][(/\ last'.op \in {"sendMessage", "privateMessage"}
      /\ last'.text = NoText /\ last'.fileUrl = NoText) =>
       /\ last'.result = "empty"
       /\ messages' = messages /\ created' = created /\ pending' = pending
       /\ out' = <<Event(IF last'.op = "sendMessage" THEN "messageError"
                         ELSE "privateMessageAck",
                         {last'.sock}, NoRoom,
                         IF last'.op = "sendMessage" THEN "Message cannot be empty."
                         ELSE "Private message cannot be empty.")>>]_vars

\* an empty sendMessage has been rejected while the store held a message
C4_Witness ==
  /\ last.op = "sendMessage" /\ last.result = "empty"
  /\ last.text = NoText /\ last.fileUrl = NoText
  /\ created > 0

\* C5: an editMessage whose userId is not the sender of the stored message changes
\* nothing in the store (text and edited flag included), emits no messageEdited, and
\* answers the requester alone with the authorization error (with the generic
\* edit error when the lookup in the store itself failed).
C5_NonOwnerEditRejected ==
  [][(/\ last'.op = "editMessage" /\ last'.result # "await"
      /\ Has(messages, last'.messageId)
      /\ messages[last'.messageId].sender # last'.userId) =>
       /\ messages' = messages
       /\ last'.result \in {"unauthorized", "storeError"}
       /\ out' = <<Event("messageError", ToSocket(connected, last'.sock), NoRoom,
                         IF last'.result = "unauthorized"
                           THEN "Not authorized to edit this message."
                           ELSE "Failed to edit message.")>>]_vars

\* a user who is not the sender has asked to edit a stored message and was refused
C5_Witness ==
  /\ last.op = "editMessage" /\ last.result = "unauthorized"
  /\ Has(messages, last.messageId)
  /\ messages[last.messageId].sender # last.userId
  /\ last.sock \in connected

\* C6: when a private message from U2 to a different user U1 has been delivered,
\* every open connection whose user-id is U1 got exactly one of the two events:
\* receivePrivateMessage (once, and no privateMessageNotification) if it is in the
\* private room of the pair, privateMessageNotification (once, and no
\* receivePrivateMessage) if it is not.  The sending connection is not U1's.
C6_ReceiveOrNotify ==
  (/\ last.op = "privateMessage" /\ last.result = "sent"
   /\ last.senderId # last.receiverId
   /\ sockUserId[last.sock] # last.receiverId) =>
    \A t \in connected :
      sockUserId[t] = last.receiverId =>
        LET id == getPrivateRoomId(last.senderId, last.receiverId)
            received == {i \in 1..Len(out) :
                           out[i].ev = "receivePrivateMessage" /\ t \in out[i].to}
            notified == {i \in 1..Len(out) :
                           out[i].ev = "privateMessageNotification" /\ t \in out[i].to}
        IN  IF id \in rooms[t]
              THEN Cardinality(received) = 1 /\ notified = {}
              ELSE Cardinality(notified) = 1 /\ received = {}

\* C7: the snippet of a notification is its content when the content has at most
\* 100 characters, and otherwise the first 97 characters of the content followed
\* by "..."; it never has more than 100 characters.
C7_SnippetTruncation ==
  (last.op = "messageSnippet" /\ last.done) =>
    /\ Len(last.content) <= 100 => last.result = last.content
    /\ Len(last.content) > 100 =>
          last.result = SubSeq(last.content, 1, 97) \o <<46, 46, 46>>
    /\ Len(last.result) <= 100

\* a content of 101 characters, built from a file name, has been cut
C7_Witness ==
  /\ last.op = "messageSnippet" /\ last.done
  /\ last.text = NoText /\ Len(last.content) = 101
  /\ Len(last.result) = 100 /\ last.result[100] = 46 /\ last.result[97] = last.content[97]

\* C8: after a connection whose current public room is A has joined a different
\* public room B, under the display name it bore in A and which no other
\* connection bears: A's member set does not contain the name, B's does, the
\* connection's current room is B, A is not in its joined-room set, and a
\* userLeft for the name went to A.
C8_SwitchMovesName ==
  (/\ last.op = "joinRoom" /\ last.result \in {"joined", "joinedAwait"}
   /\ last.prev # NoRoom /\ last.prev # last.room
   /\ last.prevName = FullName(last.name)
   /\ \A t \in Sockets \ {last.sock} :
         Has(users, t) => FullName(users[t].name) # FullName(last.name)) =>
    LET n == FullName(last.name)
        s == last.sock
    IN  /\ ~(Has(usersInPublicRooms, last.prev) /\ n \in usersInPublicRooms[last.prev])
        /\ Has(usersInPublicRooms, last.room) /\ n \in usersInPublicRooms[last.room]
        /\ Has(users, s) /\ users[s].currentRoom = last.room
        /\ last.prev \notin Range(activeRooms[s])
        /\ \E i \in 1..Len(out) :
              out[i].ev = "userLeft" /\ out[i].room = last.prev /\ out[i].data = n

\* C9: when a connection disconnects while the display name of its Session Record
\* is in the typing set of its current public room, the room's typing set does not
\* contain the name afterwards and a userStoppedTyping for the name went to the
\* connections in the room.
C9_DisconnectClearsTyping ==
  (last.op = "disconnect" /\ last.room # NoRoom /\ last.wasTyping) =>
    /\ Has(typingUsers, last.room)
    /\ FullName(last.name) \notin typingUsers[last.room]
    /\ \E i \in 1..Len(out) :
          out[i] = Event("userStoppedTyping", ToRoom(rooms, connected, last.room),
                         last.room, FullName(last.name))

\* a typing connection has disconnected while another connection was in its room
C9_Witness ==
  /\ last.op = "disconnect" /\ last.room # NoRoom /\ last.wasTyping
  /\ \E i \in 1..Len(out) :
        /\ out[i].ev = "userStoppedTyping" /\ out[i].room = last.room
        /\ out[i].data = FullName(last.name) /\ out[i].to # {}

\* C10: once a joinPrivateRoom has completed with no other event between its
\* steps, the same call on the same connection would change neither the
\* participant sets of the private rooms nor any connection's joined-room set
\* (nor the rooms of the transport).
C10_JoinPrivateRoomIdempotent ==
  [][(/\ last'.op = "joinPrivateRoom" /\ last'.result = "joined"
      /\ \/ last'.named
         \/ /\ last.op = "joinPrivateRoom" /\ last.result = "joinedAwait"
            /\ last.sock = last'.sock /\ last.senderId = last'.senderId
            /\ last.receiverId = last'.receiverId) =>
       LET again == JoinPrivateEffect(Membership', connected', userSockets', last'.sock,
                                      last'.senderId, last'.name, last'.receiverId)
       IN  /\ again.usersInPrivateRooms = usersInPrivateRooms'
           /\ again.activeRooms = activeRooms'
           /\ again.rooms = rooms']_vars

\* a second joinPrivateRoom has completed on a connection that had joined, while
\* an open connection of the receiver was in the room through the fan-out
C10_Witness ==
  /\ last.op = "joinPrivateRoom" /\ last.result = "joined" /\ last.wasJoined
  /\ last.sock \in connected
  /\ \E t \in connected \ {last.sock} :
        /\ Has(userSockets, last.receiverId) /\ t \in Range(userSockets[last.receiverId])
        /\ getPrivateRoomId(last.senderId, last.receiverId) \in Range(activeRooms[t])
  /\ Has(usersInPrivateRooms, getPrivateRoomId(last.senderId, last.receiverId))
  /\ usersInPrivateRooms[getPrivateRoomId(last.senderId, last.receiverId)]
        = {last.senderId, last.receiverId}

\* C11: when the identity check of registerUser, joinRoom, joinPrivateRoom,
\* sendMessage or privateMessage finds a user (either party of a private
\* operation) missing or banned, or the user store fails, the step changes none of
\* the maps, no socket's user-id, name, joined-room set or transport rooms and no
\* stored message, and emits exactly one event: the error, to the requesting
\* connection.
C11_GateFailureChangesNothing ==
  [][\A p \in pending \ pending' :
       LET parties == IF p.op \in {"joinPrivateRoom", "privateMessage"}
                        THEN {p.senderId, p.receiverId}
                        ELSE {p.userId}
           refused == \E u \in parties : u \notin ExistingUsers \/ u \in BannedUsers
       IN  (/\ p.op \in {"registerUser", "joinRoom", "joinPrivateRoom", "sendMessage",
                         "privateMessage"}
            /\ p.pc = "findById"
            /\ refused \/ last'.result = "storeError") =>
             /\ UNCHANGED <<sockVars, mapVars, storeVars, connected, closed>>
             /\ p \notin pending' /\ pending' \subseteq pending
             /\ last'.result \in {"storeError", "notFound", "banned"}
             /\ Len(out') = 1
             /\ out'[1].to = {p.sock} \cap connected
             /\ out'[1].ev = CASE p.op = "joinPrivateRoom" -> "joinPrivateRoomAck"
                               [] p.op = "privateMessage" -> "privateMessageAck"
                               [] OTHER -> "error"
             /\ out'[1].data \in {"Failed to verify user", "Failed to verify users",
                                  "Failed to validate users", "User not found",
                                  "User is banned", "One or both users are banned"}]_vars

\* a joinPrivateRoom towards a banned user has been refused while a user was online
C11_Witness ==
  /\ last.op = "joinPrivateRoom" /\ last.result = "banned"
  /\ last.receiverId \in BannedUsers /\ last.sock \in connected
  /\ globalOnlineUsers # EmptyMap

\* C12: in every state, a display name is in the member set of a public room if
\* and only if some open connection whose Session Record bears that name has the
\* room as its current public room (so the name stays while one of two
\* connections of that name remains in the room).
C12_MemberIffPresent ==
  \A r \in PublicRooms, nm \in Names :
    (Has(usersInPublicRooms, r) /\ FullName(nm) \in usersInPublicRooms[r])
      <=> \E s \in connected :
             Has(users, s) /\ users[s].currentRoom = r /\ users[s].name = nm

\* C13: when a joinPrivateRoom(self, other) has just completed successfully on a
\* connection that did not have the canonical room in its joined-room set, every
\* open connection in the other user's User Connection Set has the room in its
\* joined-room set, and if there is such a connection the other user-id is in the
\* room's participant set.
C13_FanOutReachesReceiver ==
  (last.op = "joinPrivateRoom" /\ last.result = "joined" /\ ~last.wasJoined) =>
    LET id == getPrivateRoomId(last.senderId, last.receiverId)
        theirs == Range(ReceiverSockets(userSockets, last.receiverId)) \cap connected
    IN  /\ \A t \in theirs : id \in Range(activeRooms[t])
        /\ theirs # {} =>
             (Has(usersInPrivateRooms, id) /\ last.receiverId \in usersInPrivateRooms[id])

\* C14: when a connection has just disconnected, whether or not it had a Session
\* Record and whether or not its user-id had a User Connection Set, no room of
\* its joined-room set still has its user-id in the participant set of a private
\* room or its display name in a typing set.
C14_TeardownPassesIndependent ==
  last.op = "disconnect" =>
    \A r \in Range(activeRooms[last.sock]) :
      /\ Has(usersInPrivateRooms, r) => sockUserId[last.sock] \notin usersInPrivateRooms[r]
      /\ Has(typingUsers, r) => FullName(sockName[last.sock]) \notin typingUsers[r]

\* C15: a successful sendMessage (to its room) or privateMessage (to the canonical
\* private room of sender and receiver) whose sender's display name is in the
\* typing set of that room removes the name from the set and emits a
\* userStoppedTyping for it before the receiveMessage / receivePrivateMessage.
C15_SendClearsTyping ==
  [][(/\ last'.op \in {"sendMessage", "privateMessage"} /\ last'.result = "sent") =>
       LET r == IF last'.op = "sendMessage" THEN last'.room
                ELSE getPrivateRoomId(last'.senderId, last'.receiverId)
           n == FullName(last'.name)
       IN  (Has(typingUsers, r) /\ n \in typingUsers[r]) =>
             /\ n \notin typingUsers'[r]
             /\ \E i \in 1..Len(out') :
                  /\ out'[i].ev = "userStoppedTyping" /\ out'[i].room = r /\ out'[i].data = n
                  /\ \A j \in 1..Len(out') :
                       out'[j].ev \in {"receiveMessage", "receivePrivateMessage"} => i < j]_vars

\* C16: when a connection that is in the User Connection Set of its user-id
\* disconnects: if another open connection is in that set, the user's roster entry
\* stays and no onlineUsers is emitted; if none is, the roster entry and the User
\* Connection Set entry are gone afterwards and the new roster is emitted to all
\* open connections.
C16_RosterReferenceCounted ==
  [][last'.op = "disconnect" =>
       LET s == last'.sock
           u == sockUserId[s]
       IN  (u # NoUser /\ Has(userSockets, u) /\ s \in Range(userSockets[u])) =>
             IF (Range(userSockets[u]) \ {s}) \cap connected' # {}
               THEN /\ Has(globalOnlineUsers, u) => Has(globalOnlineUsers', u)
                    /\ \A i \in 1..Len(out') : out'[i].ev # "onlineUsers"
               ELSE /\ ~Has(globalOnlineUsers', u)
                    /\ ~Has(userSockets', u)
                    /\ \E i \in 1..Len(out') :
                          out'[i] = Event("onlineUsers", connected', NoRoom,
                                          globalOnlineUsers')]_vars

\* C17: a registerUser that succeeds for a user-id without a roster entry inserts
\* the entry and emits onlineUsers, with the new roster, to all open connections;
\* one that succeeds for a user-id that has an entry leaves the roster as it was
\* and emits a single onlineUsers, to the requesting connection only.
C17_RegisterBroadcastsIffFirst ==
  [][(last'.op = "registerUser" /\ last'.result \in {"registeredFirst", "registered"}) =>
       LET u == last'.userId
           s == last'.sock
       IN  IF ~Has(globalOnlineUsers, u)
             THEN /\ globalOnlineUsers' = Put(globalOnlineUsers, u, FullName(last'.name))
                  /\ Len(out') = 2
                  /\ out'[1] = Event("onlineUsers", connected, NoRoom, globalOnlineUsers')
             ELSE /\ globalOnlineUsers' = globalOnlineUsers
                  /\ Len(out') = 1
                  /\ out'[1] = Event("onlineUsers", {s} \cap connected, NoRoom,
                                     globalOnlineUsers)]_vars

\* a second connection of a user in the roster has registered while another
\* connection was open: it alone got the snapshot
C17_Witness ==
  /\ last.op = "registerUser" /\ last.result = "registered"
  /\ Len(out) = 1 /\ out[1].ev = "onlineUsers" /\ out[1].to = {last.sock}
  /\ connected \ {last.sock} # {}
  /\ Has(globalOnlineUsers, last.userId)

\* C18: when the write of a sendMessage, privateMessage, editMessage or
\* deleteMessage to the message store fails (save / deleteOne throws), the stored
\* messages and the typing sets (and every other map and socket field) are as
\* before, and the only event emitted is one error to the requesting connection:
\* no receiveMessage, receivePrivateMessage, privateMessageNotification,
\* messageEdited or messageDeleted.
C18_FailedWriteChangesNothing ==
  [][\A p \in pending \ pending' :
       (/\ p.op \in {"sendMessage", "privateMessage", "editMessage", "deleteMessage"}
        /\ last'.result \in {"saveError", "deleteError"}) =>
          /\ UNCHANGED <<storeVars, mapVars, sockVars>>
          /\ Len(out') = 1
          /\ out'[1].to = {p.sock} \cap connected
          /\ out'[1].ev = IF p.op = "privateMessage" THEN "privateMessageAck"
                          ELSE "messageError"
          /\ out'[1].data \in {"Failed to send message.", "Failed to send private message.",
                               "Failed to edit message.", "Failed to delete message."}]_vars

\* the save of a room message has failed while its sender was typing in the room
\* and another connection was in the room
C18_Witness ==
  /\ last.op = "sendMessage" /\ last.result = "saveError"
  /\ Has(typingUsers, last.room) /\ FullName(last.name) \in typingUsers[last.room]
  /\ InRoom(rooms, connected, last.room) \ {last.sock} # {}
  /\ messages = EmptyMap

\* C19: a request that is rejected for its arguments (missing ids or names, empty
\* message, unknown message or replied message, file-only edit), for its user
\* (unknown or banned) or for its authorization (edit or delete by another user)
\* emits exactly one event, to the requesting connection alone: error or
\* messageError, or the failure acknowledgement of joinPrivateRoom / privateMessage.
C19_RejectionsToRequesterOnly ==
  [][(/\ last'.op \in {"registerUser", "joinRoom", "joinPrivateRoom", "leavePrivateRoom",
                       "sendMessage", "privateMessage", "editMessage", "deleteMessage",
                       "getPrivateMessages"}
      /\ last'.result \in {"invalid", "empty", "notFound", "banned", "unauthorized",
                           "fileOnly", "replyNotFound"}) =>
       /\ Len(out') = 1
       /\ out'[1].to = {last'.sock} \cap connected
       /\ out'[1].room = NoRoom
       /\ out'[1].ev = CASE last'.op = "joinPrivateRoom" -> "joinPrivateRoomAck"
                         [] last'.op = "privateMessage" -> "privateMessageAck"
                         [] last'.op \in {"registerUser", "joinRoom", "leavePrivateRoom"}
                              -> "error"
                         [] last'.op = "sendMessage" /\ last'.result \in {"notFound", "banned"}
                              -> "error"
                         [] OTHER -> "messageError"
       /\ out'[1].data \notin {"success", "Joined private room"}]_vars

\* a delete by a user who is not the sender has been refused while another
\* connection was in the room of the message
C19_Witness ==
  /\ last.op = "deleteMessage" /\ last.result = "unauthorized"
  /\ Has(messages, last.messageId) /\ messages[last.messageId].sender # last.userId
  /\ InRoom(rooms, connected, messages[last.messageId].room) \ {last.sock} # {}

\* C20: a deleteMessage for a stored message, the store answering: when the userId
\* given is the message's sender, the message is gone from the store afterwards
\* and the only event is messageDeleted, carrying the message-id alone, to the
\* connections in the message's room (room message) or in the canonical private
\* room of its sender and receiver (private message); when the userId is not the
\* sender, the store is unchanged and no messageDeleted is emitted.
C20_DeleteOnlyByOwner ==
  [][\A p \in pending \ pending' :
       (/\ p.op = "deleteMessage" /\ Has(messages, p.messageId)
        /\ last'.result \notin {"storeError", "deleteError"}) =>
          LET doc == messages[p.messageId]
              audience == IF doc.chatType = "room" THEN doc.room
                          ELSE getPrivateRoomId(doc.sender, doc.receiver)
          IN  IF doc.sender = p.userId
                THEN /\ ~Has(messages', p.messageId)
                     /\ \A i \in DOMAIN messages' : messages'[i] = messages[i]
                     /\ out' = <<Event("messageDeleted", InRoom(rooms, connected, audience),
                                       audience, p.messageId)>>
                ELSE /\ messages' = messages
                     /\ \A i \in 1..Len(out') : out'[i].ev # "messageDeleted"]_vars

\* the sender of a private message has deleted it while a connection was in the
\* private room
C20_Witness ==
  /\ last.op = "deleteMessage" /\ last.result = "deleted"
  /\ ~Has(messages, last.messageId) /\ created >= last.messageId
  /\ Len(out) = 1 /\ out[1].ev = "messageDeleted"
  /\ out[1].room = "private_u1_u2" /\ out[1].to # {}

\* C21: every joinPrivateRoom and privateMessage request is acknowledged exactly
\* once.  A step calls the acknowledgement callback once, for the requesting
\* connection, exactly when it ends such a request (a rejection of the arguments,
\* or the last step of a suspended handler: gate rejection, store failure, missing
\* replied message, success) and no other step calls one; and every suspended
\* handler of such a request is eventually ended.
C21_ExactlyOneAck ==
  /\ [][LET acks == {i \in 1..Len(out') :
                       out'[i].ev \in {"joinPrivateRoomAck", "privateMessageAck"}}
            rejected == /\ last'.op \in {"joinPrivateRoom", "privateMessage"}
                        /\ last'.result \in {"invalid", "empty"}
            ended == {p \in pending \ pending' :
                        /\ p.op \in {"joinPrivateRoom", "privateMessage"}
                        /\ pending' \subseteq pending}
        IN  /\ Cardinality(acks) = IF rejected THEN 1 ELSE Cardinality(ended)
            /\ Cardinality(ended) <= 1
            /\ \A i \in acks :
                 /\ out'[i].ev = last'.op \o "Ack"
                 /\ out'[i].to = {last'.sock} \cap connected]_vars
  /\ (\E p \in pending : p.op \in {"joinPrivateRoom", "privateMessage"})
        ~> (\A p \in pending : p.op \notin {"joinPrivateRoom", "privateMessage"})

\* a joinPrivateRoom whose receiver's names were missing has ended, after the
\* await of the receiver's details, with its single acknowledgement
C21_Witness ==
  /\ last.op = "joinPrivateRoom" /\ last.result = "joined" /\ ~last.named
  /\ Len(out) = 1 /\ out[1].ev = "joinPrivateRoomAck" /\ out[1].to = {last.sock}
  /\ pending = {}

\* C22: when a registerUser, joinRoom or joinPrivateRoom handler resumes from a
\* user-store call after its connection has closed, it adds nothing: the User
\* Connection Sets, the roster, the Session Records, the member and participant
\* sets and the connection's own fields and joined rooms are as before.
C22_ClosedConnectionAddsNothing ==
  [][\A p \in pending \ pending' :
       (p.op \in {"registerUser", "joinRoom", "joinPrivateRoom"} /\ p.sock \in closed) =>
          UNCHANGED <<mapVars, sockVars>>]_vars

\* C23: in every state, the public rooms in the joined-room set of an open
\* connection are exactly the current room of its Session Record (none when it
\* has no record), so at most one; the private rooms in the set are not limited.
C23_OnePublicRoom ==
  \A s \in connected :
    Range(activeRooms[s]) \cap PublicRooms
      = IF Has(users, s) THEN {users[s].currentRoom} ELSE {}

\* a connection that moved from lobby to general holds general and two private
\* rooms
C23_Witness ==
  \E s \in connected :
    /\ Has(users, s) /\ users[s].currentRoom = "general"
    /\ last.op = "joinRoom" /\ last.sock = s /\ last.prev = "lobby"
    /\ Range(activeRooms[s]) = {"general", "private_u1_u2", "private_u1_u1"}


\* C24: a leavePrivateRoom step changes only the calling connection's joined
\* rooms and removes only the calling user (the senderId of the request) from
\* the participant set of the room: the other connections' joined rooms, every
\* other entry of the participant sets and all other maps keep their values,
\* and nothing changes when the calling connection has not joined the room.
C24_LeaveRemovesOnlyCaller ==
  [][last'.op = "leavePrivateRoom" /\ nEvents' # nEvents =>
       LET s == last'.sock
           id == getPrivateRoomId(last'.senderId, last'.receiverId)
           members(m, k) == IF Has(m, k) THEN m[k] ELSE {}
       IN  /\ \A t \in Sockets \ {s} :
                 activeRooms'[t] = activeRooms[t] /\ rooms'[t] = rooms[t]
           /\ UNCHANGED <<sockUserId, sockName, users, usersInPublicRooms, userSockets,
                          typingUsers, globalOnlineUsers, storeVars>>
           /\ \A k \in DOMAIN usersInPrivateRooms \cup DOMAIN usersInPrivateRooms' :
                \A u \in ExistingUsers :
                   (k # id \/ u # last'.senderId) =>
                      (u \in members(usersInPrivateRooms', k)
                         <=> u \in members(usersInPrivateRooms, k))
           /\ id \notin Range(activeRooms[s]) => UNCHANGED <<mapVars, sockVars>>]_vars

\* a connection of u1 left the private room that a connection of u2 stays in
C24_Witness ==
  /\ last.op = "leavePrivateRoom" /\ last.result = "left" /\ last.senderId = "u1"
  /\ "private_u1_u2" \notin Range(activeRooms[last.sock])
  /\ Has(usersInPrivateRooms, "private_u1_u2")
  /\ usersInPrivateRooms["private_u1_u2"] = {"u2"}
  /\ \E t \in connected \ {last.sock} : "private_u1_u2" \in Range(activeRooms[t])


\* C25: a step of sendMessage, privateMessage, editMessage, deleteMessage,
\* getPrivateMessages, typing or stopTyping leaves the Global Online Roster and
\* the User Connection Sets as they were, and every step that changes the
\* roster is a step of registerUser, joinRoom or disconnect.
C25_TrafficKeepsPresence ==
  [][/\ last'.op \in {"sendMessage", "privateMessage", "editMessage", "deleteMessage",
                      "getPrivateMessages", "typing", "stopTyping"}
          => UNCHANGED <<globalOnlineUsers, userSockets>>
     /\ globalOnlineUsers' # globalOnlineUsers
          => last'.op \in {"registerUser", "joinRoom", "disconnect"}]_vars

\* u1 is on the roster with a bound connection when its message is broadcast
C25_Witness ==
  /\ last.op = "sendMessage" /\ last.result = "sent"
  /\ Has(globalOnlineUsers, "u1")
  /\ Has(userSockets, "u1") /\ last.sock \in Range(userSockets["u1"])


\* C26: a sendMessage step that succeeds for room R stores the message in the
\* step that broadcasts it (no receiveMessage is emitted for a message that is
\* not in storage), and its receiveMessage is delivered to every open connection
\* joined to R and to the sending connection, when that is still open.
C26_SendReachesRoomAndSender ==
  [][/\ \A i \in 1..Len(out') :
          out'[i].ev = "receiveMessage" =>
             /\ last'.op = "sendMessage" /\ last'.result = "sent"
             /\ Has(messages', created') /\ messages'[created'] = out'[i].data
             /\ ~Has(messages, created')
     /\ last'.op = "sendMessage" /\ last'.result = "sent" /\ pending' # pending =>
          \E i \in 1..Len(out') :
             /\ out'[i].ev = "receiveMessage"
             /\ out'[i].to = {t \in connected : last'.room \in rooms[t]}
                               \cup ({last'.sock} \cap connected)]_vars


\* C27: in every state reached by sends and edits, every stored message has a
\* text that is not empty or whitespace-only, or a file attachment.
C27_StoredMessagesNotEmpty ==
  \A id \in DOMAIN messages :
     ~IsBlank(messages[id].text) \/ messages[id].fileUrl # NoText


\* C28: when the owner's editMessage on a message with a file attachment ends,
\* a new text that is empty or only spaces leaves the message unchanged and
\* emits no messageEdited, and any other new text, the store answering, replaces
\* the text, sets the edited flag and broadcasts messageEdited with the edited
\* message to the open connections in the message's room, or in the canonical
\* private room of its sender and receiver.
C28_FileMessageEdit ==
  [][\A p \in pending \ pending' :
        (/\ p.op = "editMessage"
         /\ Has(messages, p.messageId)
         /\ messages[p.messageId].sender = p.userId
         /\ messages[p.messageId].fileUrl # NoText) =>
           LET doc == messages[p.messageId]
               blank == \A i \in 1..Len(p.newText) : p.newText[i] = 32
               aud == IF doc.chatType = "room" THEN doc.room
                      ELSE getPrivateRoomId(doc.sender, doc.receiver)
           IN  IF blank \/ last'.result \in {"storeError", "saveError"}
                 THEN /\ UNCHANGED messages
                      /\ \A i \in 1..Len(out') : out'[i].ev # "messageEdited"
                      /\ last'.result # "edited"
                 ELSE /\ messages' = [messages EXCEPT ![p.messageId] =
                                        [doc EXCEPT !.text = p.newText, !.isEdited = TRUE]]
                      /\ out' = <<Event("messageEdited",
                                        {t \in connected : aud \in rooms[t]}, aud,
                                        messages'[p.messageId])>>]_vars

\* a text was added to a file-only message of the lobby, and a member of the
\* lobby was told
C28_Witness ==
  /\ last.op = "editMessage" /\ last.result = "edited" /\ last.newText = Hi
  /\ Has(messages, last.messageId)
  /\ messages[last.messageId].fileUrl = AFile
  /\ messages[last.messageId].text = Hi /\ messages[last.messageId].isEdited
  /\ Len(out) = 1 /\ out[1].ev = "messageEdited" /\ out[1].to # {}


\* C29: when a sendMessage or privateMessage whose replyTo names a message that
\* is not in storage ends, nothing is stored, every event of the step goes to
\* the requester only, and, the stores answering, the event is the
\* reply-not-found error (messageError, or the failed acknowledgement).
C29_ReplyTargetMustExist ==
  [][\A p \in pending \ pending' :
        (/\ p.op \in {"sendMessage", "privateMessage"}
         /\ p.replyTo # NoMsg
         /\ p.replyTo \notin DOMAIN messages) =>
           /\ UNCHANGED storeVars
           /\ \A i \in 1..Len(out') : /\ out'[i].to \subseteq {p.sock}
                                      /\ out'[i].ev \in {"messageError", "privateMessageAck"}
           /\ last'.result \in {"replyNotFound", "saveError"}
           /\ last'.result = "replyNotFound" =>
                /\ Len(out') = 1
                /\ out'[1].to = {p.sock} \cap connected
                /\ out'[1].data = "Replied message not found."]_vars

\* a reply to a message that was deleted is refused while a member of the room
\* and the requester are connected
C29_Witness ==
  /\ last.op = "sendMessage" /\ last.result = "replyNotFound" /\ last.replyTo = 1
  /\ created = 1 /\ messages = EmptyMap
  /\ out[1].to = {last.sock}
  /\ \E t \in connected : "lobby" \in rooms[t]


C32_StoppedTypingOnlyIfTyping ==
  [][last'.op = "joinRoom" /\ last'.result \in {"joined", "joinedAwait"}
        /\ (\E p \in pending \ pending' : p.op = "joinRoom" /\ p.pc = "findById") =>
       LET stopped == {i \in 1..Len(out') : out'[i].ev = "userStoppedTyping"}
           typing(r, n) == Has(typingUsers, r) /\ n \in typingUsers[r]
       IN  /\ \A i \in stopped : typing(out'[i].room, out'[i].data)
           /\ (last'.prev # NoRoom /\ last'.prev # last'.room
                 /\ typing(last'.prev, last'.oldName)) =>
                \E i \in stopped : /\ out'[i].room = last'.prev
                                   /\ out'[i].data = last'.oldName]_vars


\* C33: when registerUser ends on an open connection that is already registered
\* with the same userId and names (bound to them, in the user's connection set,
\* the user on the roster), the User Connection Sets, the roster, the Session
\* Records, the room and typing sets and the connection's own fields are
\* unchanged, and the only event is the roster snapshot for the requester.
C33_ReRegisterIsIdempotent ==
  [][\A p \in pending \ pending' :
        (/\ p.op = "registerUser"
         /\ p.sock \in connected
         /\ sockUserId[p.sock] = p.userId /\ sockName[p.sock] = p.name
         /\ Has(userSockets, p.userId) /\ p.sock \in Range(userSockets[p.userId])
         /\ Has(globalOnlineUsers, p.userId)) =>
           /\ UNCHANGED <<mapVars, sockVars>>
           /\ \A i \in 1..Len(out') : out'[i].to = {p.sock}
           /\ last'.result \in {"registered", "storeError"}]_vars

\* a second registerUser of the same identity ends while another connection is
\* open: the roster goes to the requester only
C33_Witness ==
  /\ last.op = "registerUser" /\ last.result = "registered"
  /\ last.sock \in connected /\ connected # {last.sock}
  /\ Has(userSockets, "u1") /\ userSockets["u1"] = <<last.sock>>
  /\ Len(out) = 1 /\ out[1].ev = "onlineUsers" /\ out[1].to = {last.sock}


\* C34: in every state, for every open connection and every room of its
\* joined-room set, the membership tracker agrees: the connection's user id is
\* in the participant set of a private room, and the connection's display name
\* is in the member set of a public room.
C34_JoinedRoomsAreTracked ==
  \A s \in connected : \A r \in Range(activeRooms[s]) :
     IF r \in PublicRooms
       THEN Has(usersInPublicRooms, r) /\ FullName(sockName[s]) \in usersInPublicRooms[r]
       ELSE Has(usersInPrivateRooms, r) /\ sockUserId[s] \in usersInPrivateRooms[r]


\* C35: when a privateMessage from a sender to another user is delivered, an
\* open connection of the sender, other than the sending one, that has not
\* joined the canonical private room receives neither receivePrivateMessage
\* nor privateMessageNotification.
C35_SendersOtherConnectionsGetNothing ==
  [][last'.op = "privateMessage" /\ last'.result = "sent" /\ pending' # pending
        /\ last'.senderId # last'.receiverId =>
       LET id == getPrivateRoomId(last'.senderId, last'.receiverId)
       IN  \A t \in connected \ {last'.sock} :
              (sockUserId[t] = last'.senderId /\ id \notin rooms[t]) =>
                 \A i \in 1..Len(out') :
                    out'[i].ev \in {"receivePrivateMessage", "privateMessageNotification"}
                       => t \notin out'[i].to]_vars


\* C36: a registerUser or joinRoom whose userId is empty or 'undefined', or
\* whose first name, last name or room is empty, and a joinPrivateRoom,
\* privateMessage, leavePrivateRoom or getPrivateMessages with an empty id, is
\* answered in the step in which it arrives: no store call is started, and no
\* map, connection field or stored message changes.
C36_InvalidArgumentsRejectedFirst ==
  [][nEvents' # nEvents /\ last'.op \in {"registerUser", "joinRoom", "joinPrivateRoom",
                                        "privateMessage", "leavePrivateRoom",
                                        "getPrivateMessages"} =>
       LET l == last'
           badId(u) == u = "" \/ u = "undefined"
           badName(n) == n[1] = "" \/ n[2] = ""
           bad == CASE l.op = "registerUser" -> badId(l.userId) \/ badName(l.name)
                    [] l.op = "joinRoom" -> l.room = "" \/ badId(l.userId) \/ badName(l.name)
                    [] l.op = "getPrivateMessages" -> l.user1Id = "" \/ l.user2Id = ""
                    [] OTHER -> l.senderId = "" \/ l.receiverId = ""
       IN  bad => /\ UNCHANGED <<pending, mapVars, sockVars, storeVars>>
                  /\ Len(out') = 1
                  /\ out'[1].ev \in {"error", "messageError", "joinPrivateRoomAck",
                                     "privateMessageAck"}
                  /\ out'[1].to = {l.sock}]_vars

\* a registerUser with the id 'undefined' is refused on a connection while a
\* registered connection is open
C36_Witness ==
  /\ last.op = "registerUser" /\ last.userId = "undefined" /\ last.result = "invalid"
  /\ Len(out) = 1 /\ out[1].ev = "error" /\ out[1].to = {last.sock}
  /\ Has(userSockets, "u1") /\ last.sock \notin Range(userSockets["u1"])


\* C37: in every state, every connection id in a User Connection Set is the id
\* of an open connection whose associated user id is the key of that set.
C37_ConnectionSetsHoldOwnOpenConnections ==
  \A u \in DOMAIN userSockets : \A s \in Range(userSockets[u]) :
     s \in connected /\ sockUserId[s] = u


\* C38: in every state, every open connection that has an associated user id
\* is in the User Connection Set of that user.
C38_BoundConnectionsAreInTheirSet ==
  \A s \in connected :
     sockUserId[s] # NoUser =>
        Has(userSockets, sockUserId[s]) /\ s \in Range(userSockets[sockUserId[s]])


\* C39: a privateMessage step that succeeds delivers receivePrivateMessage to
\* each connection at most once, the sending connection included.
C39_PrivateMessageDeliveredOnce ==
  [][last'.op = "privateMessage" /\ last'.result = "sent" /\ pending' # pending =>
       \A t \in Sockets :
          Cardinality({i \in 1..Len(out') : /\ out'[i].ev = "receivePrivateMessage"
                                            /\ t \in out'[i].to}) <= 1]_vars


\* C40: in every state, every display name in the typing set of a room is the
\* name of an open connection that has joined that room.
C40_TypingNamesAreJoined ==
  \A r \in DOMAIN typingUsers : \A n \in typingUsers[r] :
     \E s \in connected : FullName(sockName[s]) = n /\ r \in Range(activeRooms[s])

====
